---- MODULE Spec2Model ----
(***************************************************************************)
(* Box-Packer: arrangement search and scoring engine.                      *)
(*                                                                         *)
(* Lengths are integers counted in lattice units; one inch is              *)
(* UnitsPerInch units.  The Python code works on floats; every quantity    *)
(* it compares (sums and products of box and pallet dimensions, area       *)
(* ratios, ratio scores) is represented here exactly, a quotient as a      *)
(* pair <<numerator, denominator>>.                                        *)
(*                                                                         *)
(* A grid is a sequence of rows, a row a sequence of cells "N" (Normal),   *)
(* "R" (Rotated) or "O" (Gap), exactly as the Python lists.  Python's      *)
(* Optional[grid] is the record [ok, grid]; None is [ok |-> FALSE].        *)
(***************************************************************************)
EXTENDS Integers, Sequences, FiniteSets, TLC

VARIABLES
    pc,                    \* position of the running function
    args,                  \* arguments of the call
    ret,                   \* returned value
    candidates,            \* find_best_arrangement: generate_candidates(box_count)
    flexible_arrangement,  \* find_best_arrangement: result of the flexible strategy
    smart_arrangement,     \* find_best_arrangement: result of the smart patterns
    best,                  \* find_best_arrangement: best_arrangement, best_score,
                           \* best_rows, best_columns (and where it came from)
    next_candidate,        \* find_best_arrangement: index into candidates
    traditional_tried,     \* find_best_arrangement: column-wise shapes that worked
    scaling,               \* find_best_arrangement_fine_scaling: its local variables
    scale_factor,          \* find_best_arrangement_with_scaling: scale_factor
    optimize,              \* auto_optimize_box_count: its local variables
    placements,            \* create_spatial_arrangement: placements
    self                   \* Box.__init__: self (width, length)

vars == <<pc, args, ret, candidates, flexible_arrangement, smart_arrangement,
          best, next_candidate, traditional_tried, scaling, scale_factor,
          optimize, placements, self>>

\* the local variables of find_best_arrangement and of the fine scaling it calls
find_locals == <<candidates, flexible_arrangement, smart_arrangement, best,
                 next_candidate, traditional_tried, scaling>>

\* the local variables of the other functions
other_locals == <<scale_factor, optimize, placements, self>>

locals == <<find_locals, other_locals>>

-----------------------------------------------------------------------------
(* Bounds of the model *)

\* lattice resolution: units per inch
UnitsPerInch == 1

\* generate_candidates is explored for box counts 1..MaxCandidateCount
MaxCandidateCount == 60

\* try_arrangement is explored for shapes up to MaxTryRows x MaxTryColumns
\* and box counts 1..MaxTryCount
MaxTryRows == 4
MaxTryColumns == 3
MaxTryCount == 7

\* arrangement_fits_in_pallet is explored on every grid of up to
\* MaxFitRows x MaxFitColumns cells
MaxFitRows == 2
MaxFitColumns == 2

\* find_best_arrangement is explored for box counts 1..MaxFindCount (and a
\* few larger counts, see FindInputs)
MaxFindCount == 4

\* try_flexible_arrangement is called for 1..MaxFlexibleCount boxes
MaxFlexibleCount == 12

\* create_spatial_arrangement is explored for box counts 1..MaxSpatialCount
MaxSpatialCount == 10

-----------------------------------------------------------------------------
(* config.py *)

PALLET_WIDTH == 40 * UnitsPerInch
PALLET_LENGTH == 48 * UnitsPerInch
TARGET_RATIO == <<6, 5>>

\* algorithms/scaling.py, find_best_arrangement_fine_scaling.  The lattice
\* unit is the increment; the Python code has increment = 0.0625, that is
\* UnitsPerInch = 16
increment == 1
max_additional_size == 8 * UnitsPerInch

\* algorithms/optimization.py: "traditional_score = combined_score + 50"
TraditionalPenalty == 50

-----------------------------------------------------------------------------
(* Exact quotients <<n, d>>, n >= 0, d >= 0; d = 0 is float('inf') *)

Min2(a, b) == IF a <= b THEN a ELSE b
Max2(a, b) == IF a >= b THEN a ELSE b
Abs(x) == IF x < 0 THEN -x ELSE x

RECURSIVE SumSeq(_, _, _)
\* sum(s[lo..hi]), halving the range
SumSeq(s, lo, hi) ==
    IF lo > hi THEN 0
    ELSE IF lo = hi THEN s[lo]
    ELSE LET mid == (lo + hi) \div 2
         IN  SumSeq(s, lo, mid) + SumSeq(s, mid + 1, hi)

RECURSIVE MaxSeq(_, _, _)
\* max(s[lo..hi]) of non-negative numbers, 0 for an empty range
MaxSeq(s, lo, hi) ==
    IF lo > hi THEN 0
    ELSE IF lo = hi THEN s[lo]
    ELSE LET mid == (lo + hi) \div 2
         IN  Max2(MaxSeq(s, lo, mid), MaxSeq(s, mid + 1, hi))

RECURSIVE ForFold(_, _, _, _)
\* "for i in range(lo, hi + 1): st = Body(st, i)", halving the range
ForFold(Body(_, _), st, lo, hi) ==
    IF lo > hi THEN st
    ELSE IF lo = hi THEN Body(st, lo)
    ELSE LET mid == (lo + hi) \div 2
             first_half == ForFold(Body, st, lo, mid)
         IN  \* the test makes TLC evaluate first_half before it descends
             IF first_half = first_half
             THEN ForFold(Body, first_half, mid + 1, hi)
             ELSE st

RECURSIVE ForFirst(_, _, _, _)
\* "for i in range(lo, hi + 1): r = Attempt(i); if r is not None: return r"
\* and none after the loop, halving the range
ForFirst(Attempt(_), none, lo, hi) ==
    IF lo > hi THEN none
    ELSE IF lo = hi THEN Attempt(lo)
    ELSE LET mid == (lo + hi) \div 2
             left == ForFirst(Attempt, none, lo, mid)
         IN  IF left.ok THEN left ELSE ForFirst(Attempt, none, mid + 1, hi)

Inf == <<1, 0>>

RECURSIVE FracLessFinite(_, _, _, _)
\* a/b < c/d for b > 0, d > 0, a >= 0, c >= 0, without forming a*d or c*b
FracLessFinite(a, b, c, d) ==
    LET qa == a \div b
        qc == c \div d
        ra == a % b
        rc == c % d
    IN  IF qa # qc THEN qa < qc
        ELSE IF rc = 0 THEN FALSE
        ELSE IF ra = 0 THEN TRUE
        ELSE FracLessFinite(d, rc, b, ra)

FracLess(x, y) ==
    IF x[2] = 0 THEN FALSE
    ELSE IF y[2] = 0 THEN TRUE
    ELSE FracLessFinite(x[1], x[2], y[1], y[2])

FracEq(x, y) == ~FracLess(x, y) /\ ~FracLess(y, x)
FracLeq(x, y) == ~FracLess(y, x)
FracMin(x, y) == IF FracLess(y, x) THEN y ELSE x
RECURSIVE Gcd(_, _)
Gcd(a, b) == IF b = 0 THEN a ELSE Gcd(b, a % b)
\* the quotient n / d in lowest terms
Frac(n, d) == IF d = 0 THEN Inf ELSE LET g == Gcd(n, d) IN <<n \div g, d \div g>>

-----------------------------------------------------------------------------
(* models: Box, Pallet, Optional *)

Box_unswapped(a, b) == [width |-> a, length |-> b]

\* Box.__init__ with _validate_dimensions: "if width > length" the two are
\* swapped
Box(a, b) == IF a > b THEN [width |-> b, length |-> a]
                      ELSE [width |-> a, length |-> b]

BoxArea(box) == box.width * box.length

Pallet(w, l) == [width |-> w, length |-> l]

StandardPallet == Pallet(PALLET_WIDTH, PALLET_LENGTH)

PalletArea(pallet) == pallet.width * pallet.length

None == [ok |-> FALSE, grid |-> << >>]
Some(g) == [ok |-> TRUE, grid |-> g]

\* [['O' for _ in range(columns)] for _ in range(rows)]
EmptyGrid(rows, columns) == [r \in 1..rows |-> [c \in 1..columns |-> "O"]]

\* arrangement[r][c] = cell (1-based)
SetCell(g, r, c, cell) == [g EXCEPT ![r][c] = cell]

-----------------------------------------------------------------------------
(* utils/geometry.py *)

\* the width a cell adds to its column: box.width for 'N', box.length for 'R'
CellWidth(cell, box) ==
    IF cell = "N" THEN box.width ELSE IF cell = "R" THEN box.length ELSE 0

CellHeight_gapCounted(cell, box) ==
    IF cell = "R" THEN box.width ELSE box.length

\* the height a cell adds to its column: box.length for 'N', box.width for 'R'
CellHeight(cell, box) ==
    IF cell = "N" THEN box.length ELSE IF cell = "R" THEN box.width ELSE 0

ColumnWidth_unrotated(arrangement, box, c) ==
    MaxSeq([r \in 1..Len(arrangement) |->
               IF arrangement[r][c] = "O" THEN 0 ELSE box.width],
           1, Len(arrangement))

\* the inner loop "for r in range(rows)": col_width is the maximum of the
\* cell widths, col_height the sum of the cell heights
ColumnWidth(arrangement, box, c) ==
    MaxSeq([r \in 1..Len(arrangement) |-> CellWidth(arrangement[r][c], box)],
           1, Len(arrangement))

ColumnHeightSum(arrangement, box, c) ==
    SumSeq([r \in 1..Len(arrangement) |-> CellHeight(arrangement[r][c], box)],
           1, Len(arrangement))

\* total_width = sum(column_widths)
TotalWidth(arrangement, box) ==
    SumSeq([c \in 1..Len(arrangement[1]) |-> ColumnWidth(arrangement, box, c)],
           1, Len(arrangement[1]))

\* total_height = max(column_heights)
TotalHeight(arrangement, box) ==
    MaxSeq([c \in 1..Len(arrangement[1]) |-> ColumnHeightSum(arrangement, box, c)],
           1, Len(arrangement[1]))

\* "not arrangement or not arrangement[0]"
IsDegenerate(arrangement) ==
    IF Len(arrangement) = 0 THEN TRUE ELSE Len(arrangement[1]) = 0

\* the locals (total_width, total_height) of calculate_arrangement_area and
\* arrangement_fits_in_pallet; none is computed for a grid without cells
Footprint(arrangement, box) ==
    IF IsDegenerate(arrangement) THEN <<0, 0>>
    ELSE <<TotalWidth(arrangement, box), TotalHeight(arrangement, box)>>

calculate_arrangement_area(arrangement, box) ==
    IF IsDegenerate(arrangement) THEN 0
    ELSE TotalWidth(arrangement, box) * TotalHeight(arrangement, box)

arrangement_fits_in_pallet_swapped(arrangement, box, pallet) ==
    IF IsDegenerate(arrangement) THEN TRUE
    ELSE /\ TotalWidth(arrangement, box) <= pallet.length
         /\ TotalHeight(arrangement, box) <= pallet.width

arrangement_fits_in_pallet(arrangement, box, pallet) ==
    IF IsDegenerate(arrangement) THEN TRUE
    ELSE /\ TotalWidth(arrangement, box) <= pallet.width
         /\ TotalHeight(arrangement, box) <= pallet.length

\* |rows / columns - TARGET_RATIO|
ratio_score(rows, columns) ==
    IF columns = 0 THEN Inf
    ELSE <<Abs(rows * TARGET_RATIO[2] - TARGET_RATIO[1] * columns),
           columns * TARGET_RATIO[2]>>

-----------------------------------------------------------------------------
(* algorithms/arrangement.py: generate_candidates *)

KeepPair_reversed(rows, columns) == rows =< columns

KeepPair_strict(rows, columns) == rows > columns

\* "if rows >= columns"
KeepPair(rows, columns) == rows >= columns

\* the loop "for i in range(1, box_count + 1)": rows = i runs upwards,
\* columns = box_count // i
FactorPairs(box_count) ==
    SelectSeq([i \in 1..box_count |-> <<i, box_count \div i>>],
              LAMBDA rc : box_count % rc[1] = 0 /\ KeepPair(rc[1], rc[2]))

KeyLess_descending(rc1, rc2) ==
    FracLess(ratio_score(rc2[1], rc2[2]), ratio_score(rc1[1], rc1[2]))

\* the sort key (ratio_score(rows, columns), rows * columns), compared
\* lexicographically as Python compares tuples
KeyLess(rc1, rc2) ==
    LET s1 == ratio_score(rc1[1], rc1[2])
        s2 == ratio_score(rc2[1], rc2[2])
    IN  \/ FracLess(s1, s2)
        \/ FracEq(s1, s2) /\ rc1[1] * rc1[2] < rc2[1] * rc2[2]

RECURSIVE InsertSorted(_, _)
\* stable insertion: x goes after every element whose key is not greater
InsertSorted(sorted, x) ==
    IF sorted = << >> THEN <<x>>
    ELSE IF KeyLess(x, sorted[Len(sorted)])
         THEN Append(InsertSorted(SubSeq(sorted, 1, Len(sorted) - 1), x),
                     sorted[Len(sorted)])
         ELSE Append(sorted, x)

RECURSIVE SortCandidates(_, _, _)
\* list.sort(key=...): a stable sort
SortCandidates(pairs, i, sorted) ==
    IF i > Len(pairs) THEN sorted
    ELSE SortCandidates(pairs, i + 1, InsertSorted(sorted, pairs[i]))

generate_candidates(box_count) ==
    SortCandidates(FactorPairs(box_count), 1, << >>)

-----------------------------------------------------------------------------
(* algorithms/arrangement.py: try_arrangement *)

TestOrientations_fromTop(n, rotate_count) ==
    [i \in 1..n |-> IF i <= rotate_count THEN "R" ELSE "N"]

\* ['N'] * (n - rotate_count) + ['R'] * rotate_count
TestOrientations(n, rotate_count) ==
    [i \in 1..n |-> IF i <= n - rotate_count THEN "N" ELSE "R"]

\* the local helper column_height(orientations): every 'N' adds box.length,
\* anything else box.width
column_height(orientations, box) ==
    SumSeq([i \in 1..Len(orientations) |->
                IF orientations[i] = "N" THEN box.length ELSE box.width],
           1, Len(orientations))

\* "if column_height(test_orientations) <= pallet.length"
ColumnFits(orientations, box, pallet) ==
    column_height(orientations, box) <= pallet.length

FirstRotateCount_most(n, box, pallet) ==
    LET fits == [k \in 0..n |-> ColumnFits(TestOrientations(n, k), box, pallet)]
    IN  IF \E k \in 0..n : fits[k]
        THEN CHOOSE k \in 0..n : fits[k] /\ \A j \in (k + 1)..n : ~fits[j]
        ELSE -1

\* "for rotate_count in range(n + 1)": the first rotate_count whose column
\* fits, or -1 when the loop ends without break
FirstRotateCount(n, box, pallet) ==
    LET fits == [k \in 0..n |-> ColumnFits(TestOrientations(n, k), box, pallet)]
    IN  IF \E k \in 0..n : fits[k]
        THEN CHOOSE k \in 0..n : fits[k] /\ \A j \in 0..(k - 1) : ~fits[j]
        ELSE -1

RECURSIVE ReduceColumn(_, _, _, _, _)
\* Strategy 3, "for empty_spaces in range(1, rows - boxes_in_col + 1)".
\* status "placed": a reduced column was found; "kept": the loop was left
\* by "if reduced_boxes <= 0: break", so the all-Normal column of Strategy 1
\* stays; "none": the loop ran out and the function returns None
ReduceColumn(rows, boxes_in_col, empty_spaces, box, pallet) ==
    IF empty_spaces > rows - boxes_in_col
    THEN [status |-> "none", orientations |-> << >>, boxes_in_col |-> boxes_in_col]
    ELSE LET reduced_boxes == boxes_in_col - empty_spaces
         IN  IF reduced_boxes <= 0
             THEN [status |-> "kept",
                   orientations |-> TestOrientations(boxes_in_col, 0),
                   boxes_in_col |-> boxes_in_col]
             ELSE LET k == FirstRotateCount(reduced_boxes, box, pallet)
                  IN  IF k >= 0
                      THEN [status |-> "placed",
                            orientations |-> TestOrientations(reduced_boxes, k)
                                \o [i \in 1..empty_spaces |-> "O"],
                            boxes_in_col |-> reduced_boxes]
                      ELSE ReduceColumn(rows, boxes_in_col, empty_spaces + 1,
                                        box, pallet)

FillColumn_oneMoreGap(rows, boxes_in_col, box, pallet) ==
    LET k == FirstRotateCount(boxes_in_col, box, pallet)
    IN  IF k >= 0
        THEN [status |-> "placed",
              orientations |-> TestOrientations(boxes_in_col, k),
              boxes_in_col |-> boxes_in_col]
        ELSE ReduceColumn(rows + 1, boxes_in_col, 1, box, pallet)

\* Strategies 1-3 for one column holding boxes_in_col boxes
FillColumn(rows, boxes_in_col, box, pallet) ==
    LET k == FirstRotateCount(boxes_in_col, box, pallet)
    IN  IF k >= 0
        THEN [status |-> "placed",
              orientations |-> TestOrientations(boxes_in_col, k),
              boxes_in_col |-> boxes_in_col]
        ELSE ReduceColumn(rows, boxes_in_col, 1, box, pallet)

\* "for i, orientation in enumerate(orientations): if i < rows:
\*      arrangement[i][col] = orientation"
PlaceOrientations(arrangement, rows, col, orientations) ==
    [r \in 1..Len(arrangement) |->
        IF r <= Len(orientations) /\ r <= rows
        THEN [arrangement[r] EXCEPT ![col] = orientations[r]]
        ELSE arrangement[r]]

\* min(rows, (remaining_boxes + remaining_columns - 1) // remaining_columns)
BoxesForColumn(rows, remaining_boxes, remaining_columns) ==
    Min2(rows, (remaining_boxes + remaining_columns - 1) \div remaining_columns)

FinalCheck_skipped(arrangement, box, pallet) == TRUE

\* "if not arrangement_fits_in_pallet(arrangement, box, pallet): return None"
FinalCheck(arrangement, box, pallet) ==
    arrangement_fits_in_pallet(arrangement, box, pallet)

RECURSIVE BuildColumns(_, _, _, _, _, _, _, _)
\* the loop "for col in range(columns)" and the final check
BuildColumns(arrangement, rows, columns, box, box_count, pallet, col, boxes_placed) ==
    IF col > columns
    THEN IF FinalCheck(arrangement, box, pallet) THEN Some(arrangement) ELSE None
    ELSE LET boxes_in_col == BoxesForColumn(rows, box_count - boxes_placed,
                                            columns - col + 1)
         IN  IF boxes_in_col = 0
             THEN BuildColumns(arrangement, rows, columns, box, box_count,
                               pallet, col + 1, boxes_placed)
             ELSE LET f == FillColumn(rows, boxes_in_col, box, pallet)
                  IN  IF f.status = "none" THEN None
                      ELSE BuildColumns(
                               PlaceOrientations(arrangement, rows, col,
                                                 f.orientations),
                               rows, columns, box, box_count, pallet,
                               col + 1, boxes_placed + f.boxes_in_col)

try_arrangement(rows, columns, box, box_count, pallet) ==
    BuildColumns(EmptyGrid(rows, columns), rows, columns, box, box_count,
                 pallet, 1, 0)

-----------------------------------------------------------------------------
(* algorithms/arrangement.py: find_best_arrangement_with_custom_pallet *)

RECURSIVE CustomPalletLoop(_, _, _, _, _, _, _, _)
\* "for rows, columns in pairs": keeps the arrangement of smallest
\* footprint area, on equal areas the one of smaller ratio score
CustomPalletLoop(pairs, i, box, box_count, pallet, best_arrangement, best_area, best_score) ==
    IF i > Len(pairs) THEN best_arrangement
    ELSE LET rows == pairs[i][1]
             columns == pairs[i][2]
             arrangement == try_arrangement(rows, columns, box, box_count, pallet)
         IN  IF ~arrangement.ok
             THEN CustomPalletLoop(pairs, i + 1, box, box_count, pallet,
                                   best_arrangement, best_area, best_score)
             ELSE LET area == calculate_arrangement_area(arrangement.grid, box)
                      score == ratio_score(rows, columns)
                  IN  IF \/ FracLess(<<area, 1>>, best_area)
                         \/ /\ FracEq(<<area, 1>>, best_area)
                            /\ FracLess(score, best_score)
                      THEN CustomPalletLoop(pairs, i + 1, box, box_count,
                                            pallet, arrangement, <<area, 1>>, score)
                      ELSE CustomPalletLoop(pairs, i + 1, box, box_count,
                                            pallet, best_arrangement, best_area,
                                            best_score)

find_best_arrangement_with_custom_pallet(box, box_count, pallet) ==
    CustomPalletLoop(generate_candidates(box_count), 1, box, box_count, pallet,
                     None, Inf, Inf)

-----------------------------------------------------------------------------
(* algorithms/arrangement.py: try_flexible_arrangement and its patterns *)

\* the trial "test_grid[row][col] = orientation;
\* if arrangement_fits_in_pallet(test_grid, box, pallet)"
FitsWith(grid, row, col, orientation, box, pallet) ==
    arrangement_fits_in_pallet(SetCell(grid, row, col, orientation), box, pallet)

RECURSIVE PriorityRows(_, _, _, _, _, _, _)
\* the row loop of one pass of _place_with_priority; st is
\* [grid, boxes_placed]; "break" once box_count boxes are placed
PriorityRows(st, col, row, orientation, box, box_count, pallet) ==
    IF row > Len(st.grid) \/ st.boxes_placed >= box_count THEN st
    ELSE IF st.grid[row][col] = "O"
            /\ FitsWith(st.grid, row, col, orientation, box, pallet)
    THEN PriorityRows([grid |-> SetCell(st.grid, row, col, orientation),
                       boxes_placed |-> st.boxes_placed + 1],
                      col, row + 1, orientation, box, box_count, pallet)
    ELSE PriorityRows(st, col, row + 1, orientation, box, box_count, pallet)

RECURSIVE PriorityPass(_, _, _, _, _, _)
\* the column loop of one pass
PriorityPass(st, col, orientation, box, box_count, pallet) ==
    IF col > Len(st.grid[1]) THEN st
    ELSE PriorityPass(
             PriorityRows(st, col, 1, orientation, box, box_count, pallet),
             col + 1, orientation, box, box_count, pallet)

_place_with_priority(grid, box, box_count, first_orientation, second_orientation, pallet) ==
    LET first == PriorityPass([grid |-> grid, boxes_placed |-> 0], 1,
                              first_orientation, box, box_count, pallet)
    IN  PriorityPass(first, 1, second_orientation, box, box_count, pallet)

RECURSIVE FillColumnDown(_, _, _, _, _, _, _)
\* the row loop shared by _place_mixed_columns and _place_by_space_efficiency:
\* stops at the first box that does not fit
FillColumnDown(st, col, row, orientation, box, box_count, pallet) ==
    IF row > Len(st.grid) \/ st.boxes_placed >= box_count THEN st
    ELSE IF FitsWith(st.grid, row, col, orientation, box, pallet)
    THEN FillColumnDown([grid |-> SetCell(st.grid, row, col, orientation),
                         boxes_placed |-> st.boxes_placed + 1],
                        col, row + 1, orientation, box, box_count, pallet)
    ELSE st

RECURSIVE MixedColumns(_, _, _, _, _)
\* "orientation = 'N' if col % 2 == 0 else 'R'" with col counted from 0
MixedColumns(st, col, box, box_count, pallet) ==
    IF col > Len(st.grid[1]) THEN st
    ELSE MixedColumns(
             FillColumnDown(st, col, 1,
                            IF (col - 1) % 2 = 0 THEN "N" ELSE "R",
                            box, box_count, pallet),
             col + 1, box, box_count, pallet)

_place_mixed_columns(grid, box, box_count, pallet) ==
    MixedColumns([grid |-> grid, boxes_placed |-> 0], 1, box, box_count, pallet)

\* _get_column_width_for_test(grid, col, box)
_get_column_width_for_test(grid, col, box) ==
    ColumnWidth(grid, box, col)

\* sum(_get_column_width_for_test(grid, c, box) for c in range(col))
WidthBefore(grid, col, box) ==
    SumSeq([c \in 1..(col - 1) |-> _get_column_width_for_test(grid, c, box)],
           1, col - 1)

\* the orientation chosen for a column from the remaining width; "skip" is
\* the "continue" branch
SpaceOrientation(remaining_width, box) ==
    IF remaining_width >= Max2(box.width, box.length)
    THEN (IF box.width < box.length THEN "R" ELSE "N")
    ELSE IF remaining_width >= box.width THEN "N"
    ELSE IF remaining_width >= box.length THEN "R"
    ELSE "skip"

RECURSIVE SpaceColumns(_, _, _, _, _)
SpaceColumns(st, col, box, box_count, pallet) ==
    IF col > Len(st.grid[1]) THEN st
    ELSE LET orientation ==
                 SpaceOrientation(pallet.width - WidthBefore(st.grid, col, box), box)
         IN  IF orientation = "skip"
             THEN SpaceColumns(st, col + 1, box, box_count, pallet)
             ELSE SpaceColumns(
                      FillColumnDown(st, col, 1, orientation, box, box_count, pallet),
                      col + 1, box, box_count, pallet)

_place_by_space_efficiency(grid, box, box_count, pallet) ==
    SpaceColumns([grid |-> grid, boxes_placed |-> 0], 1, box, box_count, pallet)

\* patterns_to_try, in order
FlexiblePattern(pattern, grid, box, box_count, pallet) ==
    IF pattern = 1 THEN _place_with_priority(grid, box, box_count, "N", "R", pallet)
    ELSE IF pattern = 2 THEN _place_with_priority(grid, box, box_count, "R", "N", pallet)
    ELSE IF pattern = 3 THEN _place_mixed_columns(grid, box, box_count, pallet)
    ELSE _place_by_space_efficiency(grid, box, box_count, pallet)

PatternWorked_anyCount(st, box, box_count, pallet) ==
    arrangement_fits_in_pallet(st.grid, box, pallet)

\* "if boxes_placed >= box_count and arrangement_fits_in_pallet(test_grid, ...)"
PatternWorked(st, box, box_count, pallet) ==
    /\ st.boxes_placed >= box_count
    /\ arrangement_fits_in_pallet(st.grid, box, pallet)

RECURSIVE FlexiblePatterns(_, _, _, _, _, _)
FlexiblePatterns(pattern, box, box_count, pallet, rows, columns) ==
    IF pattern > 4 THEN None
    ELSE LET st == FlexiblePattern(pattern, EmptyGrid(rows, columns), box,
                                   box_count, pallet)
         IN  IF PatternWorked(st, box, box_count, pallet) THEN Some(st.grid)
             ELSE FlexiblePatterns(pattern + 1, box, box_count, pallet, rows, columns)

try_flexible_placement(box, box_count, pallet, rows, columns) ==
    FlexiblePatterns(1, box, box_count, pallet, rows, columns)

\* the default max_grid_size=(8, 8)
DefaultMaxGridSize == <<8, 8>>

\* range(1, min(max_grid_size[k] + 1, 8)) ends at this value
LastGridSize(max_grid_size, k) == Min2(max_grid_size[k] + 1, 8) - 1

\* the grids (rows, columns) for which try_flexible_placement is called:
\* "for rows in range(1, min(max_grid_size[0] + 1, 8)): for columns in
\* range(1, min(max_grid_size[1] + 1, 8))" without those that
\* "continue" on "rows * columns < box_count"
FlexibleShapes(box_count, max_grid_size) ==
    {rc \in (1..LastGridSize(max_grid_size, 1))
                \X (1..LastGridSize(max_grid_size, 2)) :
        rc[1] * rc[2] >= box_count}

\* the efficiency try_flexible_arrangement computes for a result
FlexibleEfficiency(arrangement, box, box_count) ==
    LET arrangement_area == calculate_arrangement_area(arrangement.grid, box)
    IN  IF arrangement_area > 0
        THEN <<box_count * BoxArea(box), arrangement_area>>
        ELSE <<0, 1>>

\* "for rows in range(...): for columns in range(...)" with
\* "if efficiency > best_efficiency" and best_efficiency = 0.0 at the start:
\* the result is the first arrangement, in loop order, whose efficiency is
\* positive, greater than that of every earlier one and not less than that
\* of any later one
try_flexible_arrangement(box, box_count, pallet, max_grid_size) ==
    LET shapes == FlexibleShapes(box_count, max_grid_size)
        arrangement == [rc \in shapes |->
                           try_flexible_placement(box, box_count, pallet,
                                                  rc[1], rc[2])]
        efficiency == [rc \in shapes |->
                          IF arrangement[rc].ok
                          THEN FlexibleEfficiency(arrangement[rc], box, box_count)
                          ELSE <<0, 1>>]
        before(rc1, rc2) == \/ rc1[1] < rc2[1]
                            \/ rc1[1] = rc2[1] /\ rc1[2] < rc2[2]
        improving == {rc \in shapes : FracLess(<<0, 1>>, efficiency[rc])}
    IN  IF improving = {} THEN None
        ELSE arrangement[CHOOSE rc \in improving :
                 \A other \in improving :
                     IF before(other, rc)
                     THEN FracLess(efficiency[other], efficiency[rc])
                     ELSE FracLeq(efficiency[other], efficiency[rc])]

-----------------------------------------------------------------------------
(* algorithms/arrangement.py: try_perimeter_fill_pattern *)

\* _choose_optimal_orientation: 'N' is tried before 'R'; "none" is None
_choose_optimal_orientation(row, col, grid, box, pallet) ==
    IF FitsWith(grid, row, col, "N", box, pallet) THEN "N"
    ELSE IF FitsWith(grid, row, col, "R", box, pallet) THEN "R"
    ELSE "none"

\* "if boxes_placed < box_count: orientation = _choose_optimal_orientation(...);
\*  if orientation: pattern[row][col] = orientation; boxes_placed += 1"
\* (only_empty: the cell must hold 'O')
PlaceOptimal(st, row, col, box, box_count, pallet, only_empty) ==
    IF st.boxes_placed < box_count /\ (only_empty => st.grid[row][col] = "O")
    THEN LET orientation ==
                 _choose_optimal_orientation(row, col, st.grid, box, pallet)
         IN  IF orientation # "none"
             THEN [grid |-> SetCell(st.grid, row, col, orientation),
                   boxes_placed |-> st.boxes_placed + 1]
             ELSE st
    ELSE st

\* "if boxes_placed < box_count: pattern[row][col] = orientation;
\*  boxes_placed += 1", without a fit test
PlaceUnchecked(st, row, col, orientation, box_count) ==
    IF st.boxes_placed < box_count
    THEN [grid |-> SetCell(st.grid, row, col, orientation),
          boxes_placed |-> st.boxes_placed + 1]
    ELSE st

\* "for col in range(cols): for row in [0, rows-1]"
PerimeterTopBottom(st, rows, cols, box, box_count, pallet) ==
    ForFold(LAMBDA t, k :
                PlaceOptimal(t, IF k % 2 = 1 THEN 1 ELSE rows, (k + 1) \div 2,
                             box, box_count, pallet, FALSE),
            st, 1, 2 * cols)

\* "for row in range(1, rows-1): for col in [0, cols-1]"
PerimeterSides(st, rows, cols, box, box_count, pallet) ==
    ForFold(LAMBDA t, k :
                PlaceOptimal(t, 1 + (k + 1) \div 2, IF k % 2 = 1 THEN 1 ELSE cols,
                             box, box_count, pallet, FALSE),
            st, 1, 2 * (rows - 2))

\* one ring "for row in range(layer, rows-layer): for col in range(layer,
\* cols-layer): if row == layer or row == rows-layer-1 or col == layer or
\* col == cols-layer-1"
PerimeterLayer(st, rows, cols, layer, box, box_count, pallet) ==
    LET h == rows - 2 * layer
        w == cols - 2 * layer
    IN  IF h <= 0 \/ w <= 0 THEN st
        ELSE ForFold(LAMBDA t, k :
                        LET row == layer + 1 + (k - 1) \div w
                            col == layer + 1 + ((k - 1) % w)
                        IN  IF \/ row = layer + 1 \/ row = rows - layer
                               \/ col = layer + 1 \/ col = cols - layer
                            THEN PlaceOptimal(t, row, col, box, box_count,
                                              pallet, TRUE)
                            ELSE t,
                     st, 1, h * w)

\* "for layer in range(1, min(rows//2, cols//2))"
PerimeterInward(st, rows, cols, box, box_count, pallet) ==
    ForFold(LAMBDA t, layer :
                PerimeterLayer(t, rows, cols, layer, box, box_count, pallet),
            st, 1, Min2(rows \div 2, cols \div 2) - 1)

\* Pattern 1: outer perimeter first, then inward
PerimeterPattern1(rows, cols, box, box_count, pallet) ==
    LET a == PerimeterTopBottom([grid |-> EmptyGrid(rows, cols),
                                 boxes_placed |-> 0],
                                rows, cols, box, box_count, pallet)
        b == PerimeterSides(a, rows, cols, box, box_count, pallet)
    IN  IF b.boxes_placed < box_count
        THEN PerimeterInward(b, rows, cols, box, box_count, pallet)
        ELSE b

\* "corners = [(0, 0), (0, cols-1), (rows-1, 0), (rows-1, cols-1)]"
Corners(rows, cols) == <<<<1, 1>>, <<1, cols>>, <<rows, 1>>, <<rows, cols>>>>

\* Pattern 2: rotated corners, normal edges, then the interior
PerimeterPattern2(rows, cols, box, box_count, pallet) ==
    LET corners ==
            ForFold(LAMBDA t, k :
                        IF cols > 1 /\ rows > 1
                        THEN PlaceUnchecked(t, Corners(rows, cols)[k][1],
                                            Corners(rows, cols)[k][2], "R",
                                            box_count)
                        ELSE t,
                    [grid |-> EmptyGrid(rows, cols), boxes_placed |-> 0], 1, 4)
        edges ==
            ForFold(LAMBDA t, k :
                        LET row == 1 + (k - 1) \div cols
                            col == 1 + ((k - 1) % cols)
                        IN  IF /\ (row = 1 \/ row = rows \/ col = 1 \/ col = cols)
                               /\ t.grid[row][col] = "O"
                            THEN PlaceUnchecked(t, row, col, "N", box_count)
                            ELSE t,
                    corners, 1, rows * cols)
    IN  IF rows <= 2 \/ cols <= 2 THEN edges
        ELSE ForFold(LAMBDA t, k :
                        LET row == 2 + (k - 1) \div (cols - 2)
                            col == 2 + ((k - 1) % (cols - 2))
                        IN  PlaceOptimal(t, row, col, box, box_count, pallet, TRUE),
                     edges, 1, (rows - 2) * (cols - 2))

\* _generate_perimeter_patterns: a pattern is listed only "if boxes_placed >=
\* box_count"
_generate_perimeter_patterns(rows, cols, box, box_count, pallet) ==
    LET p1 == PerimeterPattern1(rows, cols, box, box_count, pallet)
        p2 == PerimeterPattern2(rows, cols, box, box_count, pallet)
    IN  (IF p1.boxes_placed >= box_count THEN <<p1.grid>> ELSE << >>)
        \o (IF p2.boxes_placed >= box_count THEN <<p2.grid>> ELSE << >>)

\* _count_boxes_in_pattern: sum(row.count('N') + row.count('R') for row in pattern)
_count_boxes_in_pattern(pattern) ==
    SumSeq([r \in 1..Len(pattern) |->
               SumSeq([c \in 1..Len(pattern[r]) |->
                          IF pattern[r][c] \in {"N", "R"} THEN 1 ELSE 0],
                      1, Len(pattern[r]))],
           1, Len(pattern))

\* "if _count_boxes_in_pattern(pattern_grid) >= box_count and
\*  arrangement_fits_in_pallet(pattern_grid, box, pallet)"
PerimeterAccepts(pattern_grid, box, box_count, pallet) ==
    /\ _count_boxes_in_pattern(pattern_grid) >= box_count
    /\ arrangement_fits_in_pallet(pattern_grid, box, pallet)

\* "for total_rows in range(5, 9): for total_cols in range(3, 7)"
try_perimeter_fill_pattern(box, box_count, pallet) ==
    ForFirst(LAMBDA k :
                 LET total_rows == 5 + (k - 1) \div 4
                     total_cols == 3 + ((k - 1) % 4)
                 IN  IF total_rows * total_cols < box_count THEN None
                     ELSE LET patterns ==
                                  _generate_perimeter_patterns(
                                      total_rows, total_cols, box, box_count, pallet)
                          IN  ForFirst(LAMBDA j :
                                           IF PerimeterAccepts(patterns[j], box,
                                                               box_count, pallet)
                                           THEN Some(patterns[j]) ELSE None,
                                       None, 1, Len(patterns)),
             None, 1, 16)

-----------------------------------------------------------------------------
(* algorithms/arrangement.py: column patterns *)

\* int(pallet.length // box.width) and int(pallet.length // box.length)
MaxPerColumn(orientation, box, pallet) ==
    IF orientation = "R" THEN pallet.length \div box.width
                         ELSE pallet.length \div box.length

\* fills the columns of col_pattern from the left, top down; column c takes
\* min(capacity of c, row_cap, box_count - boxes_placed) boxes and the loop
\* is left once box_count boxes are placed
FillColumnPattern(col_pattern, rows, row_cap, box, box_count, pallet) ==
    ForFold(LAMBDA st, col :
                LET boxes_to_place ==
                        Min2(Min2(MaxPerColumn(col_pattern[col], box, pallet),
                                  row_cap),
                             box_count - st.boxes_placed)
                IN  IF st.boxes_placed >= box_count THEN st
                    ELSE IF boxes_to_place <= 0 THEN st
                    ELSE [grid |-> [r \in 1..rows |->
                                       IF r <= boxes_to_place
                                       THEN [st.grid[r] EXCEPT ![col] = col_pattern[col]]
                                       ELSE st.grid[r]],
                          boxes_placed |-> st.boxes_placed + boxes_to_place],
            [grid |-> EmptyGrid(rows, Len(col_pattern)), boxes_placed |-> 0],
            1, Len(col_pattern))

\* patterns_to_try of try_optimal_alternating_pattern
AlternatingPatterns ==
    << <<"R", "N", "R", "N", "R">>, <<"N", "R", "N", "R", "N">>,
       <<"R", "N", "R", "N">>, <<"N", "R", "N", "R">>,
       <<"R", "N", "R">>, <<"N", "R", "N">>,
       <<"R", "R", "N", "N">>, <<"N", "N", "R", "R">>,
       <<"R", "R", "N", "R">>, <<"N", "R", "R", "N">>,
       <<"R", "N", "N", "R">>, <<"R", "N", "R", "R">>,
       <<"N", "R", "N", "N">>,
       <<"R", "N", "R", "N", "R", "N">>, <<"R", "R", "N", "N", "R", "R">>,
       <<"N", "R", "N", "R", "N", "R">>,
       <<"R", "R">>, <<"N", "N">>, <<"R", "N">>, <<"N", "R">> >>

\* one iteration of "for pattern in patterns_to_try"; best_so_far is
\* [arrangement, boxes_placed, area_efficiency]
AlternatingStep(best_so_far, pattern, box, box_count, pallet) ==
    LET max_r_per_column == MaxPerColumn("R", box, pallet)
        max_n_per_column == MaxPerColumn("N", box, pallet)
        total_width == SumSeq([c \in 1..Len(pattern) |->
                                  IF pattern[c] = "R" THEN box.length ELSE box.width],
                              1, Len(pattern))
        total_boxes_possible ==
            SumSeq([c \in 1..Len(pattern) |-> MaxPerColumn(pattern[c], box, pallet)],
                   1, Len(pattern))
        max_rows == Max2(max_r_per_column, max_n_per_column)
        st == FillColumnPattern(pattern, max_rows, max_rows, box, box_count, pallet)
        area_efficiency == <<st.boxes_placed * BoxArea(box),
                             calculate_arrangement_area(st.grid, box)>>
    IN  IF total_width > pallet.width THEN best_so_far
        ELSE IF total_boxes_possible < box_count THEN best_so_far
        ELSE IF /\ st.boxes_placed >= box_count
                /\ arrangement_fits_in_pallet(st.grid, box, pallet)
                /\ \/ st.boxes_placed > best_so_far.boxes_placed
                   \/ /\ st.boxes_placed = best_so_far.boxes_placed
                      /\ FracLess(best_so_far.area_efficiency, area_efficiency)
        THEN [arrangement |-> Some(st.grid), boxes_placed |-> st.boxes_placed,
              area_efficiency |-> area_efficiency]
        ELSE best_so_far

try_optimal_alternating_pattern(box, box_count, pallet) ==
    ForFold(LAMBDA best_so_far, k :
                AlternatingStep(best_so_far, AlternatingPatterns[k], box, box_count, pallet),
            [arrangement |-> None, boxes_placed |-> 0, area_efficiency |-> <<0, 1>>],
            1, Len(AlternatingPatterns)).arrangement

\* column_patterns of _try_mixed_column_pattern
MixedColumnPatterns ==
    << <<"R", "N", "N", "R", "R">>, <<"R", "N", "N", "R">>, <<"R", "N", "R">>,
       <<"N", "R", "N", "R">>, <<"R", "R", "N", "N">> >>

\* "for col_pattern in column_patterns: for max_rows in range(5, 9)"
_try_mixed_column_pattern(box, box_count, pallet) ==
    ForFirst(LAMBDA k :
                 LET col_pattern == MixedColumnPatterns[1 + (k - 1) \div 4]
                     max_rows == 5 + ((k - 1) % 4)
                     st == FillColumnPattern(col_pattern, max_rows, max_rows,
                                             box, box_count, pallet)
                 IN  IF PatternWorked(st, box, box_count, pallet)
                     THEN Some(st.grid) ELSE None,
             None, 1, 4 * Len(MixedColumnPatterns))

-----------------------------------------------------------------------------
(* algorithms/arrangement.py: _try_block_pattern, _try_optimized_fill_pattern *)

\* the grid of one block arrangement: the N block is filled row by row while
\* boxes_placed < box_count, then the R block right of it
BlockGrid(n_block_rows, n_block_cols, r_block_rows, r_block_cols, box_count) ==
    LET total_cols == n_block_cols + r_block_cols
        total_rows == Max2(n_block_rows, r_block_rows)
        n_placed == Min2(Max2(box_count, 0), n_block_rows * n_block_cols)
        r_placed == Min2(Max2(box_count - n_placed, 0), r_block_rows * r_block_cols)
    IN  [grid |->
            [row \in 1..total_rows |-> [col \in 1..total_cols |->
                IF /\ col <= n_block_cols /\ row <= n_block_rows
                   /\ (row - 1) * n_block_cols + col <= n_placed
                THEN "N"
                ELSE IF /\ col > n_block_cols /\ row <= r_block_rows
                        /\ (row - 1) * r_block_cols + (col - n_block_cols) <= r_placed
                THEN "R"
                ELSE "O"]],
         boxes_placed |-> n_placed + r_placed]

\* "for n_block_rows in range(1, 6): for n_block_cols in range(1, 4):
\*  for r_block_rows in range(1, 6): for r_block_cols in range(1, 4)"
_try_block_pattern(box, box_count, pallet) ==
    ForFirst(LAMBDA k :
                 LET n_block_rows == 1 + (k - 1) \div 45
                     n_block_cols == 1 + (((k - 1) \div 15) % 3)
                     r_block_rows == 1 + (((k - 1) \div 3) % 5)
                     r_block_cols == 1 + ((k - 1) % 3)
                     st == BlockGrid(n_block_rows, n_block_cols, r_block_rows,
                                     r_block_cols, box_count)
                 IN  IF \/ n_block_cols + r_block_cols > 8
                        \/ Max2(n_block_rows, r_block_rows) > 8
                     THEN None
                     ELSE IF PatternWorked(st, box, box_count, pallet)
                          THEN Some(st.grid) ELSE None,
             None, 1, 225)

\* int(box_count * normal_ratio) for normal_ratio = tenths / 10.  The float
\* product is below the exact one for 90 * 0.7 only (box_count <= 100)
TargetNormal(box_count, tenths) ==
    IF box_count = 90 /\ tenths = 7 THEN 62 ELSE (box_count * tenths) \div 10

\* one cell of the fill loop; st is [grid, boxes_placed, normal_placed,
\* rotated_placed]
OptimizedFillCell(st, row, col, box_count, tenths) ==
    LET target_normal == TargetNormal(box_count, tenths)
        target_rotated == box_count - target_normal
    IN  IF st.boxes_placed >= box_count THEN st
        ELSE IF /\ st.normal_placed < target_normal
                /\ \/ st.rotated_placed >= target_rotated
                   \/ 10 * st.normal_placed
                        < tenths * Max2(1, st.normal_placed + st.rotated_placed)
        THEN [grid |-> SetCell(st.grid, row, col, "N"),
              boxes_placed |-> st.boxes_placed + 1,
              normal_placed |-> st.normal_placed + 1,
              rotated_placed |-> st.rotated_placed]
        ELSE IF st.rotated_placed < target_rotated
        THEN [grid |-> SetCell(st.grid, row, col, "R"),
              boxes_placed |-> st.boxes_placed + 1,
              normal_placed |-> st.normal_placed,
              rotated_placed |-> st.rotated_placed + 1]
        ELSE st

\* "for normal_ratio in [0.2, ..., 0.8]: for rows in range(4, 9):
\*  for cols in range(3, 8)"
_try_optimized_fill_pattern(box, box_count, pallet) ==
    ForFirst(LAMBDA k :
                 LET tenths == 2 + (k - 1) \div 25
                     rows == 4 + (((k - 1) \div 5) % 5)
                     cols == 3 + ((k - 1) % 5)
                 IN  IF rows * cols < box_count THEN None
                     ELSE LET st == ForFold(
                                  LAMBDA t, j :
                                      OptimizedFillCell(t, 1 + (j - 1) \div cols,
                                                        1 + ((j - 1) % cols),
                                                        box_count, tenths),
                                  [grid |-> EmptyGrid(rows, cols),
                                   boxes_placed |-> 0, normal_placed |-> 0,
                                   rotated_placed |-> 0],
                                  1, rows * cols)
                          IN  IF PatternWorked(st, box, box_count, pallet)
                              THEN Some(st.grid) ELSE None,
             None, 1, 175)

\* try_smart_patterns: the first pattern function that returns a grid
try_smart_patterns(box, box_count, pallet) ==
    ForFirst(LAMBDA k :
                 IF k = 1 THEN try_perimeter_fill_pattern(box, box_count, pallet)
                 ELSE IF k = 2 THEN try_optimal_alternating_pattern(box, box_count, pallet)
                 ELSE IF k = 3 THEN _try_mixed_column_pattern(box, box_count, pallet)
                 ELSE IF k = 4 THEN _try_block_pattern(box, box_count, pallet)
                 ELSE _try_optimized_fill_pattern(box, box_count, pallet),
             None, 1, 5)

-----------------------------------------------------------------------------
(* algorithms/scaling.py: find_best_arrangement_with_scaling.  scale_factor is
   a binary64 float; a value v with 1 <= v < 4 is held exactly as the integer
   v * 2^56, in three limbs <<a, b, c>> = a * 2^38 + b * 2^19 + c of 19 bits
   (TLC's integers have 32).  Lengths in this function's specification are in
   tenths of the model's unit, so that every scaled pallet is on the lattice. *)

LimbBase == 2^19

TenthsPerUnit == 10

\* "scale_factor = 1.0"
FloatOne == <<2^18, 0, 0>>

\* DEFAULT_SCALE_INCREMENT = 0.1, the binary64 0x1.999999999999ap-4
\* = 0x1999999999999A * 2^-56
DEFAULT_SCALE_INCREMENT == <<26214, 209715, 104858>>

\* MAX_SCALE_FACTOR = 3.0
MAX_SCALE_FACTOR == <<3 * 2^18, 0, 0>>

\* carries between the limbs
FloatNormalize(a, b, c) ==
    <<a + (b + c \div LimbBase) \div LimbBase,
      (b + c \div LimbBase) % LimbBase,
      c % LimbBase>>

\* round to nearest, ties to even, to the 53-bit significand: below 2.0 the
\* spacing is 2^-52 (16 units of 2^-56), from 2.0 to 4.0 it is 2^-51
FloatRound(x) ==
    LET spacing == IF x[1] < 2^19 THEN 16 ELSE 32
        rest == x[3] % spacing
        up == \/ 2 * rest > spacing
              \/ 2 * rest = spacing /\ (x[3] \div spacing) % 2 = 1
    IN  FloatNormalize(x[1], x[2],
                       x[3] - rest + (IF up THEN spacing ELSE 0))

\* the float sum x + y
FloatAdd(x, y) ==
    FloatRound(FloatNormalize(x[1] + y[1], x[2] + y[2], x[3] + y[3]))

\* x <= y
FloatLeq(x, y) ==
    \/ x[1] < y[1]
    \/ x[1] = y[1] /\ x[2] < y[2]
    \/ x[1] = y[1] /\ x[2] = y[2] /\ x[3] <= y[3]

\* "self.width * factor": the product lies in [exact, exact + 1e-13) for
\* every factor of the loop, and box dimensions are whole tenths, so every
\* comparison with it agrees with the product floored to a tenth
ScaledDimension(size, factor) ==
    (size * factor[1]
        + (size * factor[2] + (size * factor[3]) \div LimbBase) \div LimbBase)
    \div 2^18

\* Pallet.scale: "return Pallet(self.width * factor, self.length * factor)"
PalletScale(pallet, factor) ==
    Pallet(ScaledDimension(pallet.width, factor),
           ScaledDimension(pallet.length, factor))

\* "original_pallet = Pallet()", in tenths
original_pallet ==
    Pallet(PALLET_WIDTH * TenthsPerUnit, PALLET_LENGTH * TenthsPerUnit)

\* "if arrangement is not None: rows = len(arrangement); columns = ...;
\*  if rows >= columns: return ..."
ScalingAccepts(arrangement) ==
    /\ arrangement.ok
    /\ Len(arrangement.grid) >=
           (IF Len(arrangement.grid) > 0 THEN Len(arrangement.grid[1]) ELSE 0)

-----------------------------------------------------------------------------
(* algorithms/optimization.py: auto_optimize_box_count *)

\* theoretical_max = int(original_pallet_area / single_box_area)
theoretical_max(box) == (PALLET_WIDTH * PALLET_LENGTH) \div BoxArea(box)

\* min_boxes = max(1, theoretical_max // 4)
min_boxes(box) == Max2(1, theoretical_max(box) \div 4)

\* max_boxes = min(theoretical_max * 2, 100)
max_boxes(box) == Min2(theoretical_max(box) * 2, 100)

sweep_pallet_enlarged ==
    Pallet(PALLET_WIDTH + max_additional_size, PALLET_LENGTH + max_additional_size)

\* the pallet of the sweep and of its result: "Pallet()"
sweep_pallet == StandardPallet

\* min(area / standard_pallet_area, standard_pallet_area / area), area > 0
area_efficiency(area) ==
    <<Min2(area, PALLET_WIDTH * PALLET_LENGTH),
      Max2(area, PALLET_WIDTH * PALLET_LENGTH)>>

\* score = (1.0 - area_efficiency) * 1000 - box_count, as an exact fraction
sweep_score(area, box_count) ==
    LET efficiency == area_efficiency(area)
    IN  <<1000 * (efficiency[2] - efficiency[1]) - box_count * efficiency[2],
          efficiency[2]>>

\* "best_for_this_count": the flexible arrangement when only it exists or
\* when its efficiency is greater, else the column-wise one
best_for_this_count(arrangement, flexible, box) ==
    IF arrangement.ok /\ flexible.ok
    THEN IF FracLess(area_efficiency(calculate_arrangement_area(arrangement.grid, box)),
                     area_efficiency(calculate_arrangement_area(flexible.grid, box)))
         THEN flexible ELSE arrangement
    ELSE IF flexible.ok THEN flexible
    ELSE arrangement

\* the body of the loop raises, and "except Exception" skips the count:
\* "from utils.geometry import calculate_arrangement_area" inside the function
\* (line 243) makes the name local, so its use at line 227, when both
\* arrangements exist, fails until an earlier pass has run the import; a
\* division by an area of zero fails too
SweepException(opt, arrangement, flexible, box) ==
    \/ /\ arrangement.ok
       /\ flexible.ok
       /\ \/ ~opt.imported
          \/ calculate_arrangement_area(arrangement.grid, box) = 0
          \/ calculate_arrangement_area(flexible.grid, box) = 0
    \/ /\ arrangement.ok \/ flexible.ok
       /\ calculate_arrangement_area(
              best_for_this_count(arrangement, flexible, box).grid, box) = 0

\* "if score < best_score: best_arrangement = best_for_this_count; ..."
SweepScored(opt, chosen, box) ==
    LET rows == Len(chosen.grid)
        columns == IF rows > 0 THEN Len(chosen.grid[1]) ELSE 0
        score == sweep_score(calculate_arrangement_area(chosen.grid, box),
                             opt.box_count)
    IN  IF FracLess(score, opt.best_score)
        THEN [opt EXCEPT !.best_arrangement = chosen,
                         !.best_rows = rows,
                         !.best_columns = columns,
                         !.best_count = opt.box_count,
                         !.best_pallet = sweep_pallet,
                         !.best_score = score]
        ELSE opt

\* one pass of "for box_count in range(min_boxes, max_boxes + 1)" for the
\* results of the column-wise and the flexible search; report is the line
\* the pass prints (SUCCESS, FAILED or ERROR)
SweepPass(opt, arrangement, flexible, box) ==
    LET done == IF SweepException(opt, arrangement, flexible, box)
                THEN [opt EXCEPT !.report = "ERROR"]
                ELSE IF arrangement.ok \/ flexible.ok
                THEN [SweepScored(opt, best_for_this_count(arrangement, flexible, box), box)
                         EXCEPT !.imported = TRUE, !.report = "SUCCESS"]
                ELSE [opt EXCEPT !.report = "FAILED"]
    IN  [done EXCEPT !.box_count = opt.box_count + 1]

\* "best_arrangement = None; best_rows = 0; ...; best_score = float('inf')"
NoOptimize ==
    [box_count |-> 0, best_arrangement |-> None, best_rows |-> 0,
     best_columns |-> 0, best_count |-> 0, best_pallet |-> StandardPallet,
     best_score |-> Inf, imported |-> FALSE, report |-> "none"]

OptimizeResult_rowsAsCount(opt) ==
    [grid |-> opt.best_arrangement.grid, rows |-> opt.best_count,
     columns |-> opt.best_columns, count |-> opt.best_rows,
     pallet |-> opt.best_pallet]

\* "return best_arrangement, best_rows, best_columns, best_count, best_pallet"
OptimizeResult(opt) ==
    [grid |-> opt.best_arrangement.grid, rows |-> opt.best_rows,
     columns |-> opt.best_columns, count |-> opt.best_count,
     pallet |-> opt.best_pallet]

-----------------------------------------------------------------------------
(* utils/spatial_visualization.py: create_spatial_arrangement, and
   algorithms/spatial_2d.py: BoxPlacement *)

BoxPlacement(x, y, width, length, orientation) ==
    [x |-> x, y |-> y, width |-> width, length |-> length,
     orientation |-> orientation]

\* BoxPlacement.right
Right(placement) == placement.x + placement.width

\* BoxPlacement.bottom
Bottom(placement) == placement.y + placement.length

\* "if (x < placement.right and x + width > placement.x and
\*      y < placement.bottom and y + length > placement.y): return True"
_check_overlap_at_position(existing_placements, x, y, width, length) ==
    \E k \in 1..Len(existing_placements) :
        /\ x < Right(existing_placements[k])
        /\ x + width > existing_placements[k].x
        /\ y < Bottom(existing_placements[k])
        /\ y + length > existing_placements[k].y

\* possible_x: 0.0 and the right edges of the boxes that overlap the rows
\* y .. y + length
possible_x(existing_placements, y, length) ==
    {0} \cup {Right(existing_placements[k]) :
                 k \in {j \in 1..Len(existing_placements) :
                           ~(\/ y + length <= existing_placements[j].y
                             \/ y >= Bottom(existing_placements[j]))}}

\* the x values of possible_x that the loop of _find_leftmost_x_at_y accepts
FreeX(existing_placements, y, width, length, pallet) ==
    {x \in possible_x(existing_placements, y, length) :
        /\ x + width <= pallet.width
        /\ ~_check_overlap_at_position(existing_placements, x, y, width, length)}

\* the first accepted x in ascending order, or None
_find_leftmost_x_at_y(existing_placements, y, width, length, pallet) ==
    LET free == FreeX(existing_placements, y, width, length, pallet)
    IN  IF free = {} THEN [ok |-> FALSE, x |-> 0]
        ELSE [ok |-> TRUE, x |-> CHOOSE x \in free : \A other \in free : x <= other]

\* the y values of possible_y (0.0 and the bottom edges) at which the box
\* fits vertically and has a free x
FreeY(existing_placements, width, length, pallet) ==
    {y \in {0} \cup {Bottom(existing_placements[k]) :
                        k \in 1..Len(existing_placements)} :
        /\ y + length <= pallet.length
        /\ _find_leftmost_x_at_y(existing_placements, y, width, length, pallet).ok}

\* (0.0, 0.0) on an empty pallet; else the leftmost x at the first y, in
\* ascending order, that has one; else the fallback "return (0.0, 0.0)"
_find_butted_position(existing_placements, width, length, pallet) ==
    LET free == FreeY(existing_placements, width, length, pallet)
        first == CHOOSE y \in free : \A other \in free : y <= other
    IN  IF Len(existing_placements) = 0 \/ free = {} THEN <<0, 0>>
        ELSE <<_find_leftmost_x_at_y(existing_placements, first, width, length,
                                     pallet).x,
               first>>

\* one orientation of the loop "for orientation in ['N', 'R']" with the
\* position found for it: whether it lies within the pallet bounds, its
\* score y * 1000 + x and the placement it would add
OrientationTrial(position, width, length, orientation, pallet) ==
    [fits |-> /\ position[1] + width <= pallet.width
              /\ position[2] + length <= pallet.length,
     score |-> position[2] * 1000 + position[1],
     placement |-> BoxPlacement(position[1], position[2], width, length,
                                orientation)]

NormalTrial(existing_placements, box, pallet) ==
    OrientationTrial(_find_butted_position(existing_placements, box.width,
                                           box.length, pallet),
                     box.width, box.length, "N", pallet)

RotatedTrial(existing_placements, box, pallet) ==
    OrientationTrial(_find_butted_position(existing_placements, box.length,
                                           box.width, pallet),
                     box.length, box.width, "R", pallet)

\* "if score < best_score": Normal is tried first, Rotated replaces it only
\* with a smaller score
BestTrial(normal, rotated) ==
    IF normal.fits /\ (~rotated.fits \/ normal.score <= rotated.score)
    THEN normal
    ELSE rotated

-----------------------------------------------------------------------------
(* Initial values of the variables of find_best_arrangement *)

\* no Box object exists before Box.__init__ has run
NoBox == [width |-> 0, length |-> 0]

NoBest == [arrangement |-> None, score |-> Inf, rows |-> 0, columns |-> 0,
           source |-> "none"]

NoScaling == [width_increment |-> 0, length_increment |-> 0,
              best_arrangement |-> None, best_pallet |-> Pallet(0, 0),
              best_area |-> Inf, best_rows |-> 0, best_columns |-> 0]

LocalsIdle ==
    /\ candidates = << >>
    /\ flexible_arrangement = None
    /\ smart_arrangement = None
    /\ best = NoBest
    /\ next_candidate = 1
    /\ traditional_tried = 0
    /\ scaling = NoScaling
    /\ scale_factor = FloatOne
    /\ optimize = NoOptimize
    /\ placements = << >>
    /\ self = NoBox

-----------------------------------------------------------------------------
(* algorithms/optimization.py: find_best_arrangement, and
   algorithms/scaling.py: find_best_arrangement_fine_scaling *)

\* area_efficiency = min(area / pallet_area, pallet_area / area);
\* combined_score = (1.0 - area_efficiency) * 1000 + ratio_score, as an
\* exact fraction
combined_score(area, pallet_area, rows, columns) ==
    LET rs == ratio_score(rows, columns)
        lo == Min2(area, pallet_area)
        hi == Max2(area, pallet_area)
    IN  IF rs = Inf \/ hi = 0 THEN Inf
        ELSE Frac((hi - lo) * 1000 * rs[2] + rs[1] * hi, hi * rs[2])

\* traditional_score = combined_score + 50
traditional_score(score) ==
    IF score = Inf THEN Inf
    ELSE Frac(score[1] + TraditionalPenalty * score[2], score[2])

\* the tuple appended to candidates_to_compare for a heuristic result
Compared(source, arrangement, box) ==
    LET grid == arrangement.grid
        rows == Len(grid)
        columns == IF rows > 0 THEN Len(grid[1]) ELSE 0
    IN  [arrangement |-> arrangement,
         score |-> combined_score(calculate_arrangement_area(grid, box),
                                  PalletArea(StandardPallet), rows, columns),
         rows |-> rows, columns |-> columns, source |-> source]

\* min(candidates_to_compare, key=lambda x: x[3]): the first of the smallest
best_candidate(flexible, smart, box) ==
    IF flexible.ok /\ smart.ok
    THEN IF FracLess(Compared("smart", smart, box).score,
                     Compared("flexible", flexible, box).score)
         THEN Compared("smart", smart, box)
         ELSE Compared("flexible", flexible, box)
    ELSE IF flexible.ok THEN Compared("flexible", flexible, box)
    ELSE IF smart.ok THEN Compared("smart", smart, box)
    ELSE NoBest

BestFromTraditional_swapped(arrangement, score, rows, columns) ==
    [arrangement |-> arrangement, score |-> score,
     rows |-> columns, columns |-> rows, source |-> "traditional"]

\* best_arrangement = arrangement; best_score = combined_score;
\* best_rows = rows; best_columns = columns
BestFromTraditional(arrangement, score, rows, columns) ==
    [arrangement |-> arrangement, score |-> score,
     rows |-> rows, columns |-> columns, source |-> "traditional"]

\* one pass of "for rows, columns in candidates" over the shape
\* (rows, columns): the new value of best
TraditionalStep(current, rows, columns, box, box_count) ==
    LET arrangement == try_arrangement(rows, columns, box, box_count, StandardPallet)
        area == calculate_arrangement_area(arrangement.grid, box)
        score == combined_score(area, PalletArea(StandardPallet), rows, columns)
    IN  IF ~arrangement.ok THEN current
        ELSE IF FracLess(traditional_score(score), current.score)
             THEN BestFromTraditional(arrangement, score, rows, columns)
             ELSE current

NeedsScaling_smartOnly == ~smart_arrangement.ok

\* "if best_arrangement is None"
NeedsScaling == ~best.arrangement.ok

WithinCap_exclusive(size_increment) == size_increment < max_additional_size

\* "while width_increment <= max_additional_size" (and the same for length)
WithinCap(size_increment) == size_increment <= max_additional_size

\* test_pallet = Pallet(original_pallet.width + width_increment,
\*                      original_pallet.length + length_increment)
test_pallet(width_increment, length_increment) ==
    Pallet(PALLET_WIDTH + width_increment, PALLET_LENGTH + length_increment)

\* "if arrangement is None: arrangement = <the second attempt>"
IfNone(arrangement, second) == IF arrangement.ok THEN arrangement ELSE second

\* smart patterns first, then the column-wise shapes on the test pallet
ScalingAttempt(box, box_count, pallet) ==
    IfNone(try_smart_patterns(box, box_count, pallet),
           find_best_arrangement_with_custom_pallet(box, box_count, pallet))

ScalingBetter_larger(sc, area, pallet_area) ==
    \/ sc.best_area = Inf
    \/ sc.best_area # Inf /\ pallet_area > sc.best_area[1]

\* "if pallet_area < best_area or (abs(pallet_area - best_area) < 1e-6 and
\*  area_efficiency > (best_area / best_pallet.area if best_pallet else 0))";
\* best_area is always best_pallet.area, so the second quotient is 1
ScalingBetter(sc, area, pallet_area) ==
    \/ sc.best_area = Inf
    \/ sc.best_area # Inf /\ pallet_area < sc.best_area[1]
    \/ sc.best_area # Inf /\ pallet_area = sc.best_area[1] /\ area > pallet_area

\* "if arrangement is not None: ... if <better>: best_arrangement =
\* arrangement; best_pallet = test_pallet; best_area = pallet_area; ..."
ScalingUpdate(sc, arrangement, pallet, box) ==
    LET rows == Len(arrangement.grid)
        columns == IF rows > 0 THEN Len(arrangement.grid[1]) ELSE 0
        area == calculate_arrangement_area(arrangement.grid, box)
        pallet_area == PalletArea(pallet)
    IN  IF arrangement.ok /\ ScalingBetter(sc, area, pallet_area)
        THEN [sc EXCEPT !.best_arrangement = arrangement,
                        !.best_pallet = pallet,
                        !.best_area = <<pallet_area, 1>>,
                        !.best_rows = rows,
                        !.best_columns = columns]
        ELSE sc

\* the body of the inner while loop for the current pair of increments
ScalingStep(sc, box, box_count) ==
    ScalingUpdate(sc,
                  ScalingAttempt(box, box_count,
                                 test_pallet(sc.width_increment, sc.length_increment)),
                  test_pallet(sc.width_increment, sc.length_increment), box)

ScalingAdvance_widthKept(sc) ==
    IF WithinCap(sc.length_increment + increment)
    THEN [sc EXCEPT !.length_increment = @ + increment]
    ELSE [sc EXCEPT !.length_increment = 0]

\* "length_increment += increment", and at the end of the inner loop
\* "width_increment += increment; length_increment = 0.0"
ScalingAdvance(sc) ==
    IF WithinCap(sc.length_increment + increment)
    THEN [sc EXCEPT !.length_increment = @ + increment]
    ELSE [sc EXCEPT !.width_increment = @ + increment, !.length_increment = 0]

Result(arrangement, rows, columns, pallet) ==
    [grid |-> arrangement.grid, rows |-> rows, columns |-> columns,
     pallet |-> pallet]

NoResult == Result(None, 0, 0, Pallet(0, 0))

-----------------------------------------------------------------------------
(* Specification of generate_candidates *)

InitCandidates ==
    /\ pc = "call_generate_candidates"
    /\ args \in [box_count : 1..MaxCandidateCount]
    /\ ret = << >>
    /\ LocalsIdle

GenerateCandidates ==
    /\ pc = "call_generate_candidates"
    /\ pc' = "return_generate_candidates"
    /\ ret' = generate_candidates(args.box_count)
    /\ UNCHANGED <<args, locals>>

NextCandidates == GenerateCandidates

SpecCandidates == InitCandidates /\ [][NextCandidates]_vars

\* the divisor pairs of n with rows >= columns
TallDivisorPairs(n) ==
    {rc \in (1..n) \X (1..n) : rc[1] * rc[2] = n /\ rc[1] >= rc[2]}

SeqRange(s) == {s[i] : i \in DOMAIN s}

C2_CandidatesSortedByRatioScore ==
    pc = "return_generate_candidates" =>
        \A i \in 1..(Len(ret) - 1) :
            FracLeq(ratio_score(ret[i][1], ret[i][2]),
                    ratio_score(ret[i + 1][1], ret[i + 1][2]))

\* 12 boxes: (4, 3) comes first, then (6, 2), then (12, 1)
C2_Witness ==
    /\ pc = "return_generate_candidates"
    /\ args.box_count = 12
    /\ ret = <<<<4, 3>>, <<6, 2>>, <<12, 1>>>>

-----------------------------------------------------------------------------
(* Specification of try_arrangement *)

TryBoxes ==
    {Box(10 * UnitsPerInch, 20 * UnitsPerInch),
     Box(5 * UnitsPerInch, 8 * UnitsPerInch),
     Box(15 * UnitsPerInch, 30 * UnitsPerInch),
     Box(13 * UnitsPerInch, 18 * UnitsPerInch),
     Box(30 * UnitsPerInch, 35 * UnitsPerInch)}

TryPallets ==
    {StandardPallet, Pallet(50 * UnitsPerInch, 50 * UnitsPerInch)}

InitTry ==
    /\ pc = "call_try_arrangement"
    /\ args \in [rows : 1..MaxTryRows, columns : 1..MaxTryColumns,
                 box : TryBoxes, box_count : 1..MaxTryCount,
                 pallet : TryPallets]
    /\ ret = None
    /\ LocalsIdle

TryArrangement ==
    /\ pc = "call_try_arrangement"
    /\ pc' = "return_try_arrangement"
    /\ ret' = try_arrangement(args.rows, args.columns, args.box,
                              args.box_count, args.pallet)
    /\ UNCHANGED <<args, locals>>

NextTry == TryArrangement

SpecTry == InitTry /\ [][NextTry]_vars

\* footprint width: every column is as wide as its widest cell, box.width
\* for Normal, box.length for Rotated, 0 for Gap
GridWidth(grid, box) ==
    LET w(cell) == IF cell = "N" THEN box.width
                   ELSE IF cell = "R" THEN box.length ELSE 0
        colw(c) == CHOOSE m \in {0} \cup {w(grid[r][c]) : r \in 1..Len(grid)} :
                       \A r \in 1..Len(grid) : w(grid[r][c]) <= m
        RECURSIVE sum(_)
        sum(c) == IF c = 0 THEN 0 ELSE colw(c) + sum(c - 1)
    IN  IF Len(grid) = 0 THEN 0 ELSE sum(Len(grid[1]))

\* height of column c: its Normal cells are box.length high, its Rotated
\* cells box.width
ColumnHeight(grid, box, c) ==
    Cardinality({r \in 1..Len(grid) : grid[r][c] = "N"}) * box.length
    + Cardinality({r \in 1..Len(grid) : grid[r][c] = "R"}) * box.width

\* C3: a grid returned by try_arrangement fits the pallet: the sum of its
\* column widths is <= pallet.width and its tallest column is <= pallet.length.
C3_TryArrangementResultFits ==
    (pc = "return_try_arrangement" /\ ret.ok) =>
        /\ GridWidth(ret.grid, args.box) <= args.pallet.width
        /\ \A c \in 1..args.columns :
               ColumnHeight(ret.grid, args.box, c) <= args.pallet.length

\* a returned grid that holds rotated boxes: 3 rows x 2 columns of 15 x 30
\* boxes on the standard pallet
C3_Witness ==
    /\ pc = "return_try_arrangement"
    /\ ret.ok
    /\ args.box = Box(15 * UnitsPerInch, 30 * UnitsPerInch)
    /\ args.pallet = StandardPallet
    /\ \E r \in 1..args.rows : \E c \in 1..args.columns : ret.grid[r][c] = "R"

\* C4 (the claim as stated; the code breaks it): a grid returned by
\* try_arrangement holds exactly box_count Normal or Rotated cells.
C4_Original ==
    (pc = "return_try_arrangement" /\ ret.ok) =>
        _count_boxes_in_pattern(ret.grid) = args.box_count

\* C19: when rows * columns = box_count, rows * box.length <= pallet.length
\* and columns * box.width <= pallet.width, try_arrangement returns the
\* rows x columns grid whose cells are all Normal.
C19_FullNormalGridSucceeds ==
    (/\ pc = "return_try_arrangement"
     /\ args.rows * args.columns = args.box_count
     /\ args.rows * args.box.length <= args.pallet.length
     /\ args.columns * args.box.width <= args.pallet.width) =>
        /\ ret.ok
        /\ ret.grid = [r \in 1..args.rows |-> [c \in 1..args.columns |-> "N"]]

\* 2 rows x 2 columns of 10 x 20 boxes, which would also fit rotated
C19_Witness ==
    /\ pc = "return_try_arrangement"
    /\ args.rows = 2
    /\ args.columns = 2
    /\ args.box_count = 4
    /\ args.box = Box(10 * UnitsPerInch, 20 * UnitsPerInch)
    /\ args.pallet = StandardPallet
    /\ ret.ok

\* the Normal and Rotated cells of a grid
BoxCells(grid) ==
    {rc \in (1..Len(grid)) \X (1..(IF Len(grid) = 0 THEN 0 ELSE Len(grid[1]))) :
        grid[rc[1]][rc[2]] \in {"N", "R"}}

\* C20: when rows * columns = box_count and box_count * box.area >
\* pallet.area, try_arrangement returns None; and no returned grid holds
\* boxes whose total area exceeds the pallet area.
C20_OverfullGridIsRejected ==
    pc = "return_try_arrangement" =>
        /\ (/\ args.rows * args.columns = args.box_count
            /\ args.box_count * BoxArea(args.box) > PalletArea(args.pallet))
               => ~ret.ok
        /\ ret.ok =>
               Cardinality(BoxCells(ret.grid)) * BoxArea(args.box)
                   <= PalletArea(args.pallet)

\* 3 rows x 2 columns of 15 x 30 boxes: every column fits the pallet length
\* with one box rotated, the six boxes exceed the pallet area and None comes
\* back
C20_Witness ==
    /\ pc = "return_try_arrangement"
    /\ args.rows = 3
    /\ args.columns = 2
    /\ args.box_count = 6
    /\ args.box = Box(15 * UnitsPerInch, 30 * UnitsPerInch)
    /\ args.box_count * BoxArea(args.box) > PalletArea(args.pallet)
    /\ FirstRotateCount(3, args.box, args.pallet) >= 0
    /\ ~ret.ok

\* the rank of a cell in a column read top to bottom
CellRank(cell) == IF cell = "N" THEN 1 ELSE IF cell = "R" THEN 2 ELSE 3

\* the number of cells of one kind in column c
CountInColumn(grid, c, cell) ==
    Cardinality({r \in 1..Len(grid) : grid[r][c] = cell})

\* n boxes of which k are rotated are no higher than the pallet is long
StackFits(n, k, box, pallet) ==
    (n - k) * box.length + k * box.width <= pallet.length

\* C26: in every grid returned by try_arrangement each column, read top to
\* bottom, consists of Normal cells, then Rotated cells, then Gap cells, and
\* the number of Rotated cells of the column is the smallest k for which
\* the summed height of the boxes placed in the column is <= pallet.length.
C26_ColumnsAreNormalRotatedGap ==
    (pc = "return_try_arrangement" /\ ret.ok) =>
        \A c \in 1..args.columns :
            /\ \A r \in 1..(args.rows - 1) :
                   CellRank(ret.grid[r][c]) <= CellRank(ret.grid[r + 1][c])
            /\ LET k == CountInColumn(ret.grid, c, "R")
                   n == k + CountInColumn(ret.grid, c, "N")
               IN  /\ StackFits(n, k, args.box, args.pallet)
                   /\ \A j \in 0..(k - 1) :
                          ~StackFits(n, j, args.box, args.pallet)

\* a returned grid with a column that holds a Normal box above a Rotated one
\* and a column that ends in a Gap
C26_Witness ==
    /\ pc = "return_try_arrangement"
    /\ ret.ok
    /\ \E c \in 1..args.columns : \E r \in 1..(args.rows - 1) :
          ret.grid[r][c] = "N" /\ ret.grid[r + 1][c] = "R"
    /\ \E c \in 1..args.columns : ret.grid[args.rows][c] = "O"

\* C29: for a candidate shape (rows * columns = box_count) try_arrangement
\* never inserts a Gap: when the all-Rotated column height rows * box.width
\* exceeds pallet.length the attempt fails, and a returned grid has no Gap
\* cell (every column holds rows boxes).
C29_CandidateShapeHasNoGap ==
    (pc = "return_try_arrangement"
     /\ args.rows * args.columns = args.box_count) =>
        /\ args.rows * args.box.width > args.pallet.length => ~ret.ok
        /\ ret.ok =>
               \A c \in 1..args.columns :
                   CountInColumn(ret.grid, c, "O") = 0

\* 4 rows of 13 x 18 boxes are 52 high even when all are rotated, 3 would
\* fit the standard pallet: the attempt failed
C29_Witness ==
    /\ pc = "return_try_arrangement"
    /\ args.rows = 4
    /\ args.columns = 1
    /\ args.box_count = 4
    /\ args.box = Box(13 * UnitsPerInch, 18 * UnitsPerInch)
    /\ args.pallet = StandardPallet
    /\ StackFits(3, 3, args.box, args.pallet)
    /\ ~ret.ok

-----------------------------------------------------------------------------
(* Specification of arrangement_fits_in_pallet *)

Cells == {"N", "R", "O"}

\* every rectangular grid of rows x columns cells
GridsOf(rows, columns) == [1..rows -> [1..columns -> Cells]]

FitGrids ==
    UNION {GridsOf(rows, columns) :
               rows \in 0..MaxFitRows, columns \in 0..MaxFitColumns}

FitBoxes == {Box(10 * UnitsPerInch, 20 * UnitsPerInch),
             Box(12 * UnitsPerInch, 12 * UnitsPerInch)}

FitPallets == {Pallet(20 * UnitsPerInch, 30 * UnitsPerInch),
               Pallet(30 * UnitsPerInch, 24 * UnitsPerInch)}

InitFits ==
    /\ pc = "call_arrangement_fits_in_pallet"
    /\ args \in [arrangement : FitGrids, box : FitBoxes, pallet : FitPallets]
    /\ ret = FALSE
    /\ LocalsIdle

ArrangementFitsInPallet ==
    /\ pc = "call_arrangement_fits_in_pallet"
    /\ pc' = "return_arrangement_fits_in_pallet"
    /\ ret' = arrangement_fits_in_pallet(args.arrangement, args.box, args.pallet)
    /\ UNCHANGED <<args, locals>>

NextFits == ArrangementFitsInPallet

SpecFits == InitFits /\ [][NextFits]_vars

\* the number of columns of a grid (0 for a grid without rows)
GridColumns(grid) == IF Len(grid) = 0 THEN 0 ELSE Len(grid[1])

\* C5: arrangement_fits_in_pallet is true exactly when W <= pallet.width and
\* H <= pallet.length, W the sum of the column widths and H the height of the
\* tallest column; a grid with no rows or no columns always fits.
C5_FitsIffFootprintWithinPallet ==
    pc = "return_arrangement_fits_in_pallet" =>
        LET grid == args.arrangement
        IN  ret = IF Len(grid) = 0 \/ GridColumns(grid) = 0 THEN TRUE
                  ELSE /\ GridWidth(grid, args.box) <= args.pallet.width
                       /\ \A c \in 1..GridColumns(grid) :
                              ColumnHeight(grid, args.box, c) <= args.pallet.length

\* two rotated 10 x 20 boxes side by side: 40 wide, 10 high; too wide for the
\* 30 x 24 pallet although its height fits
C5_Witness ==
    /\ pc = "return_arrangement_fits_in_pallet"
    /\ args.arrangement = <<<<"R", "R">>>>
    /\ args.box = Box(10 * UnitsPerInch, 20 * UnitsPerInch)
    /\ args.pallet = Pallet(30 * UnitsPerInch, 24 * UnitsPerInch)
    /\ ret = FALSE

-----------------------------------------------------------------------------
(* Specification of the footprint of a grid and of a changed grid *)

\* the changes of a grid: the orientation of one cell is flipped, or a column
\* of 'O' cells is added or removed at the left or the right end
Changes ==
    [kind : {"flip"}, row : 1..MaxFitRows, column : 1..MaxFitColumns]
    \cup [kind : {"add_left", "add_right", "remove_left", "remove_right"},
          row : {0}, column : {0}]

ColumnIsGap(grid, c) == \A r \in 1..Len(grid) : grid[r][c] = "O"

Applicable(grid, change) ==
    CASE change.kind = "flip" ->
            /\ change.row =< Len(grid)
            /\ change.column =< GridColumns(grid)
            /\ grid[change.row][change.column] # "O"
      [] change.kind \in {"add_left", "add_right"} -> Len(grid) > 0
      [] change.kind = "remove_left" ->
            Len(grid) > 0 /\ GridColumns(grid) > 0 /\ ColumnIsGap(grid, 1)
      [] change.kind = "remove_right" ->
            /\ Len(grid) > 0 /\ GridColumns(grid) > 0
            /\ ColumnIsGap(grid, GridColumns(grid))

Changed(grid, change) ==
    CASE change.kind = "flip" ->
            SetCell(grid, change.row, change.column,
                    IF grid[change.row][change.column] = "N" THEN "R" ELSE "N")
      [] change.kind = "add_left" ->
            [r \in 1..Len(grid) |-> <<"O">> \o grid[r]]
      [] change.kind = "add_right" ->
            [r \in 1..Len(grid) |-> Append(grid[r], "O")]
      [] change.kind = "remove_left" ->
            [r \in 1..Len(grid) |-> Tail(grid[r])]
      [] change.kind = "remove_right" ->
            [r \in 1..Len(grid) |-> SubSeq(grid[r], 1, Len(grid[r]) - 1)]

\* col_height of the column of the flipped cell
ChangedColumnHeight(grid, box, change) ==
    IF change.kind = "flip" THEN ColumnHeightSum(grid, box, change.column)
    ELSE 0

InitFootprint ==
    /\ pc = "call_calculate_arrangement_area"
    /\ args \in [arrangement : FitGrids, box : FitBoxes]
    /\ ret = << >>
    /\ LocalsIdle

\* calculate_arrangement_area is called with the grid and with a changed grid
CalculateBoth ==
    /\ pc = "call_calculate_arrangement_area"
    /\ \E change \in Changes :
          /\ Applicable(args.arrangement, change)
          /\ ret' = [change |-> change,
                     changed |-> Changed(args.arrangement, change),
                     before |-> Footprint(args.arrangement, args.box),
                     after |-> Footprint(Changed(args.arrangement, change),
                                         args.box),
                     col_height_before |->
                         ChangedColumnHeight(args.arrangement, args.box, change),
                     col_height_after |->
                         ChangedColumnHeight(Changed(args.arrangement, change),
                                             args.box, change),
                     area_before |->
                         calculate_arrangement_area(args.arrangement, args.box),
                     area_after |->
                         calculate_arrangement_area(
                             Changed(args.arrangement, change), args.box)]
    /\ pc' = "return_calculate_arrangement_area"
    /\ UNCHANGED <<args, locals>>

NextFootprint == CalculateBoth

SpecFootprint == InitFootprint /\ [][NextFootprint]_vars

\* C24 as stated: changing the orientation of a single non-Gap cell changes
\* the footprint (width, height), while adding or removing a column made only
\* of Gap cells at either end leaves the footprint unchanged.
C24_Original ==
    pc = "return_calculate_arrangement_area" =>
        IF ret.change.kind = "flip" THEN ret.before # ret.after
        ELSE ret.before = ret.after

\* C24 as amended: adding or removing a column made only of Gap cells at
\* either end leaves the footprint (and the area) unchanged; changing the
\* orientation of a single non-Gap cell of a box with width # length changes
\* the summed height of that cell's column, and changes the footprint when
\* the grid has a single column.
C24_FootprintUnderGridChanges ==
    pc = "return_calculate_arrangement_area" =>
        IF ret.change.kind = "flip"
        THEN args.box.width # args.box.length =>
                /\ ret.col_height_before # ret.col_height_after
                /\ GridColumns(args.arrangement) = 1 => ret.before # ret.after
        ELSE /\ ret.before = ret.after
             /\ ret.area_before = ret.area_after

\* a column of gaps was added to the right of two stacked 10 x 20 boxes: the
\* footprint is 20 wide and 30 high before and after
C24_Witness ==
    /\ pc = "return_calculate_arrangement_area"
    /\ args.arrangement = <<<<"N">>, <<"R">>>>
    /\ args.box = Box(10 * UnitsPerInch, 20 * UnitsPerInch)
    /\ ret.change.kind = "add_right"
    /\ ret.changed = <<<<"N", "O">>, <<"R", "O">>>>
    /\ ret.before = <<20 * UnitsPerInch, 30 * UnitsPerInch>>
    /\ ret.after = ret.before

-----------------------------------------------------------------------------
(* Specification of find_best_arrangement *)

\* boxes tried with every count 1..MaxFindCount (inches)
FindBoxes ==
    {Box(10 * UnitsPerInch, 20 * UnitsPerInch),
     Box(13 * UnitsPerInch, 18 * UnitsPerInch),
     Box(16 * UnitsPerInch, 20 * UnitsPerInch),
     Box(7 * UnitsPerInch, 17 * UnitsPerInch),
     Box(5 * UnitsPerInch, 8 * UnitsPerInch)}

\* further calls: many small boxes, long thin boxes, and boxes that do not
\* fit the standard pallet
FindInputs ==
    [box : FindBoxes, box_count : 1..MaxFindCount]
    \cup {[box |-> Box(3 * UnitsPerInch, 4 * UnitsPerInch), box_count |-> 90],
          [box |-> Box(1 * UnitsPerInch, 41 * UnitsPerInch), box_count |-> 7],
          [box |-> Box(1 * UnitsPerInch, 30 * UnitsPerInch), box_count |-> 10],
          [box |-> Box(41 * UnitsPerInch, 47 * UnitsPerInch), box_count |-> 1],
          [box |-> Box(3 * UnitsPerInch, 3 * UnitsPerInch), box_count |-> 97],
          [box |-> Box(2 * UnitsPerInch, 11 * UnitsPerInch), box_count |-> 97],
          [box |-> Box(2 * UnitsPerInch, 12 * UnitsPerInch), box_count |-> 97]}
    \cup [box : {Box(10 * UnitsPerInch, 20 * UnitsPerInch),
                 Box(5 * UnitsPerInch, 8 * UnitsPerInch)},
          box_count : {-1, 0}]

Init ==
    /\ pc = "call_find_best_arrangement"
    /\ args \in FindInputs
    /\ ret = NoResult
    /\ LocalsIdle

\* candidates = generate_candidates(box_count)
Candidates ==
    /\ pc = "call_find_best_arrangement"
    /\ candidates' = generate_candidates(args.box_count)
    /\ pc' = "flexible"
    /\ UNCHANGED <<args, ret, flexible_arrangement, smart_arrangement, best,
                   next_candidate, traditional_tried, scaling,
                   other_locals>>

\* flexible_arrangement = try_flexible_arrangement(box, box_count, standard_pallet)
TryFlexible ==
    /\ pc = "flexible"
    /\ flexible_arrangement' =
           try_flexible_arrangement(args.box, args.box_count, StandardPallet,
                                    DefaultMaxGridSize)
    /\ pc' = "smart"
    /\ UNCHANGED <<args, ret, candidates, smart_arrangement, best,
                   next_candidate, traditional_tried, scaling,
                   other_locals>>

\* smart_arrangement = try_smart_patterns(box, box_count, standard_pallet)
TrySmart ==
    /\ pc = "smart"
    /\ smart_arrangement' =
           try_smart_patterns(args.box, args.box_count, StandardPallet)
    /\ pc' = "compare"
    /\ UNCHANGED <<args, ret, candidates, flexible_arrangement, best,
                   next_candidate, traditional_tried, scaling,
                   other_locals>>

\* "area_efficiency = min(flexible_area / standard_pallet.area,
\* standard_pallet.area / flexible_area)" and the same for smart_area divide
\* by the area of a result that holds no box
CompareDividesByZero ==
    \/ /\ flexible_arrangement.ok
       /\ calculate_arrangement_area(flexible_arrangement.grid, args.box) = 0
    \/ /\ smart_arrangement.ok
       /\ calculate_arrangement_area(smart_arrangement.grid, args.box) = 0

\* the ZeroDivisionError of that division leaves find_best_arrangement
CompareRaise ==
    /\ pc = "compare"
    /\ CompareDividesByZero
    /\ pc' = "ZeroDivisionError"
    /\ UNCHANGED <<args, ret, locals>>

\* "Initialize best" from candidates_to_compare
Compare ==
    /\ pc = "compare"
    /\ ~CompareDividesByZero
    /\ best' = best_candidate(flexible_arrangement, smart_arrangement, args.box)
    /\ traditional_tried' = 0
    /\ next_candidate' = 1
    /\ pc' = "traditional"
    /\ UNCHANGED <<args, ret, candidates, flexible_arrangement,
                   smart_arrangement, scaling,
                   other_locals>>

\* one pass of "for rows, columns in candidates"
TryTraditional ==
    /\ pc = "traditional"
    /\ next_candidate <= Len(candidates)
    /\ LET rows == candidates[next_candidate][1]
           columns == candidates[next_candidate][2]
       IN  /\ best' = TraditionalStep(best, rows, columns, args.box, args.box_count)
           /\ traditional_tried' =
                  IF try_arrangement(rows, columns, args.box, args.box_count,
                                     StandardPallet).ok
                  THEN traditional_tried + 1 ELSE traditional_tried
    /\ next_candidate' = next_candidate + 1
    /\ UNCHANGED <<pc, args, ret, candidates, flexible_arrangement,
                   smart_arrangement, scaling,
                   other_locals>>

\* "return best_arrangement, best_rows, best_columns, standard_pallet"
ReturnStandard ==
    /\ pc = "traditional"
    /\ next_candidate > Len(candidates)
    /\ ~NeedsScaling
    /\ ret' = Result(best.arrangement, best.rows, best.columns, StandardPallet)
    /\ pc' = "return"
    /\ UNCHANGED <<args, locals>>

\* "return find_best_arrangement_fine_scaling(box, box_count)": the call
StartScaling ==
    /\ pc = "traditional"
    /\ next_candidate > Len(candidates)
    /\ NeedsScaling
    /\ scaling' = NoScaling
    /\ pc' = "scaling"
    /\ UNCHANGED <<args, ret, candidates, flexible_arrangement,
                   smart_arrangement, best, next_candidate, traditional_tried,
                   other_locals>>

\* the end of one pass of the inner while loop, sc being the locals after
\* its body: a fit on the unenlarged pallet is returned at once ("if
\* width_increment == 0.0 and length_increment == 0.0: return ..."),
\* otherwise the increments advance
ScaleStepEnd(sc) ==
    IF /\ sc # scaling
       /\ scaling.width_increment = 0
       /\ scaling.length_increment = 0
    THEN /\ scaling' = sc
         /\ ret' = Result(sc.best_arrangement, sc.best_rows, sc.best_columns,
                          sc.best_pallet)
         /\ pc' = "return"
    ELSE /\ scaling' = ScalingAdvance(sc)
         /\ UNCHANGED <<pc, ret>>

\* one pass of the inner while loop of find_best_arrangement_fine_scaling
ScaleStep ==
    /\ pc = "scaling"
    /\ WithinCap(scaling.width_increment)
    /\ ScaleStepEnd(ScalingStep(scaling, args.box, args.box_count))
    /\ UNCHANGED <<args, candidates, flexible_arrangement, smart_arrangement,
                   best, next_candidate, traditional_tried,
                   other_locals>>

\* after the loops: "return best_arrangement, best_rows, best_columns,
\* best_pallet"
ScaleReturn ==
    /\ pc = "scaling"
    /\ ~WithinCap(scaling.width_increment)
    /\ scaling.best_arrangement.ok
    /\ ret' = Result(scaling.best_arrangement, scaling.best_rows,
                     scaling.best_columns, scaling.best_pallet)
    /\ pc' = "return"
    /\ UNCHANGED <<args, locals>>

\* after the loops: "raise ValueError(...)", which find_best_arrangement
\* re-raises to its caller
ScaleRaise ==
    /\ pc = "scaling"
    /\ ~WithinCap(scaling.width_increment)
    /\ ~scaling.best_arrangement.ok
    /\ pc' = "raise"
    /\ UNCHANGED <<args, ret, locals>>

Next ==
    \/ Candidates
    \/ TryFlexible
    \/ TrySmart
    \/ CompareRaise
    \/ Compare
    \/ TryTraditional
    \/ ReturnStandard
    \/ StartScaling
    \/ ScaleStep
    \/ ScaleReturn
    \/ ScaleRaise

Spec == Init /\ [][Next]_vars

\* the column-wise shapes that succeed on the standard pallet
TraditionalSuccesses ==
    LET shapes == generate_candidates(args.box_count)
    IN  {k \in 1..Len(shapes) :
             try_arrangement(shapes[k][1], shapes[k][2], args.box,
                             args.box_count, StandardPallet).ok}

\* C6: a result (grid, rows, columns, pallet) returned by
\* find_best_arrangement fits the returned pallet, rows is the number of
\* grid rows and columns the length of every grid row.
C6_ReturnedResultFitsReturnedPallet ==
    pc = "return" =>
        /\ GridWidth(ret.grid, args.box) <= ret.pallet.width
        /\ \A c \in 1..GridColumns(ret.grid) :
               ColumnHeight(ret.grid, args.box, c) <= ret.pallet.length
        /\ ret.rows = Len(ret.grid)
        /\ \A r \in 1..Len(ret.grid) : Len(ret.grid[r]) = ret.columns

\* a column-wise shape taller than wide replaced a heuristic result
C6_Witness ==
    /\ pc = "return"
    /\ best.source = "traditional"
    /\ flexible_arrangement.ok \/ smart_arrangement.ok
    /\ ret.rows > ret.columns
    /\ ret.pallet = StandardPallet

\* C7: scaling starts only when the flexible strategy, the smart patterns and
\* every column-wise shape have failed on the standard pallet, and a call
\* for which one of them succeeded returns the standard pallet.
C7_ScalingOnlyAfterAllFailed ==
    [][/\ (pc # "scaling" /\ pc' = "scaling") =>
              /\ ~flexible_arrangement.ok
              /\ ~smart_arrangement.ok
              /\ TraditionalSuccesses = {}
       /\ (pc # "return" /\ pc' = "return"
              /\ \/ flexible_arrangement.ok
                 \/ smart_arrangement.ok
                 \/ TraditionalSuccesses # {}) =>
              ret'.pallet = StandardPallet]_vars

\* scaling was invoked and returned an enlarged pallet
C7_Witness ==
    /\ pc = "return"
    /\ ret.pallet # StandardPallet
    /\ ~flexible_arrangement.ok
    /\ ~smart_arrangement.ok
    /\ traditional_tried = 0
    /\ scaling.best_arrangement.ok

\* no strategy fits the standard pallet
NoStandardFit ==
    /\ ~flexible_arrangement.ok
    /\ ~smart_arrangement.ok
    /\ TraditionalSuccesses = {}

\* no pallet enlarged by at most max_additional_size in each direction, in
\* steps of increment, takes the boxes
NoScaledFit ==
    \A wi \in 0..(max_additional_size \div increment) :
        \A li \in 0..(max_additional_size \div increment) :
            ~ScalingAttempt(args.box, args.box_count,
                            test_pallet(wi * increment, li * increment)).ok

ReturnedSelectionScore ==
    IF best.source = "traditional" THEN traditional_score(best.score)
    ELSE best.score

\* the selection score of the column-wise shape (rows, columns)
TraditionalSelectionScore(rows, columns) ==
    LET arrangement == try_arrangement(rows, columns, args.box, args.box_count,
                                       StandardPallet)
    IN  traditional_score(
            combined_score(calculate_arrangement_area(arrangement.grid, args.box),
                           PalletArea(StandardPallet), rows, columns))

\* C9 (the claim as stated; the code breaks it): of the results that succeed
\* on the standard pallet, the returned one has the smallest selection score,
\* which is the combined score for the flexible and the smart result and the
\* combined score plus 50 for a column-wise result.
C9_Original ==
    (pc = "return" /\ ret.pallet = StandardPallet /\ best.arrangement.ok) =>
        /\ flexible_arrangement.ok =>
               FracLeq(ReturnedSelectionScore,
                       Compared("flexible", flexible_arrangement, args.box).score)
        /\ smart_arrangement.ok =>
               FracLeq(ReturnedSelectionScore,
                       Compared("smart", smart_arrangement, args.box).score)
        /\ \A k \in TraditionalSuccesses :
               LET shape == generate_candidates(args.box_count)[k]
               IN  FracLeq(ReturnedSelectionScore,
                           TraditionalSelectionScore(shape[1], shape[2]))

\* C10 (the claim as stated; the code breaks it): a returned arrangement has
\* rows >= columns.
C10_Original ==
    pc = "return" => ret.rows >= ret.columns

\* C27: every grid returned by find_best_arrangement(box, count) with
\* count >= 1, on the standard pallet or by fine scaling, contains exactly
\* count Normal or Rotated cells.
C27_ReturnedGridHoldsCount ==
    (pc = "return" /\ args.box_count >= 1) =>
        Cardinality(BoxCells(ret.grid)) = args.box_count

\* 97 boxes came back from fine scaling on an enlarged pallet
C27_Witness ==
    /\ pc = "return"
    /\ args.box_count = 97
    /\ ret.pallet # StandardPallet
    /\ Cardinality(BoxCells(ret.grid)) = 97

\* C18: find_best_arrangement with a box count <= 0 is rejected before any
\* strategy runs: no strategy has run, no grid is returned and no
\* ZeroDivisionError occurs.
C18_Original ==
    args.box_count <= 0 =>
        /\ pc \notin {"smart", "compare", "traditional", "scaling"}
        /\ pc # "return"
        /\ pc # "ZeroDivisionError"

-----------------------------------------------------------------------------
(* Specification of find_best_arrangement_with_scaling *)

ScaleBox(width, length) ==
    Box(width * UnitsPerInch * TenthsPerUnit, length * UnitsPerInch * TenthsPerUnit)

\* boxes that need the factors 1.0, 1.1, 1.3, 1.5, 2.1, 2.9 and 3.0, and
\* boxes too large for every factor
ScaleInputs ==
    {[box |-> ScaleBox(10, 20), box_count |-> 4],
     [box |-> ScaleBox(41, 47), box_count |-> 1],
     [box |-> ScaleBox(24, 29), box_count |-> 4],
     [box |-> ScaleBox(30, 35), box_count |-> 4],
     [box |-> ScaleBox(50, 60), box_count |-> 2],
     [box |-> ScaleBox(115, 115), box_count |-> 1],
     [box |-> ScaleBox(118, 118), box_count |-> 1],
     [box |-> ScaleBox(60, 72), box_count |-> 4],
     [box |-> ScaleBox(60, 73), box_count |-> 4],
     [box |-> ScaleBox(2, 12), box_count |-> 97]}

InitScale ==
    /\ pc = "with_scaling"
    /\ args \in ScaleInputs
    /\ ret = NoResult
    /\ LocalsIdle

\* the end of one pass of the loop, for the arrangement found on current_pallet
ScaleTryEnd(arrangement, current_pallet) ==
    IF ScalingAccepts(arrangement)
    THEN /\ ret' = Result(arrangement, Len(arrangement.grid),
                          Len(arrangement.grid[1]), current_pallet)
         /\ pc' = "return"
         /\ UNCHANGED scale_factor
    ELSE /\ scale_factor' = FloatAdd(scale_factor, DEFAULT_SCALE_INCREMENT)
         /\ UNCHANGED <<pc, ret>>

\* one pass of "while scale_factor <= max_scale_factor"
ScaleTry ==
    /\ pc = "with_scaling"
    /\ FloatLeq(scale_factor, MAX_SCALE_FACTOR)
    /\ ScaleTryEnd(find_best_arrangement_with_custom_pallet(
                       args.box, args.box_count,
                       PalletScale(original_pallet, scale_factor)),
                   PalletScale(original_pallet, scale_factor))
    /\ UNCHANGED <<args, find_locals, optimize, placements, self>>

\* "raise ValueError(...)" after the loop
ScaleFail ==
    /\ pc = "with_scaling"
    /\ ~FloatLeq(scale_factor, MAX_SCALE_FACTOR)
    /\ pc' = "raise"
    /\ UNCHANGED <<args, ret, locals>>

NextScale ==
    \/ ScaleTry
    \/ ScaleFail

SpecScale == InitScale /\ [][NextScale]_vars

\* the factors 1.0, 1.1, ..., 3.0 in tenths
ScaleTenths == 10..30

\* the standard pallet with both dimensions multiplied by tenths / 10
ExactlyScaled(tenths) == Pallet(PALLET_WIDTH * tenths, PALLET_LENGTH * tenths)

\* the column-wise search gives an arrangement with rows >= columns
ScaleSucceeds(tenths) ==
    LET arrangement ==
            find_best_arrangement_with_custom_pallet(args.box, args.box_count,
                                                     ExactlyScaled(tenths))
    IN  /\ arrangement.ok
        /\ Len(arrangement.grid) >= Len(arrangement.grid[1])

\* C12: find_best_arrangement_with_scaling returns the standard pallet scaled
\* by the smallest factor of 1.0, 1.1, ..., 3.0 at which the search gives an
\* arrangement with rows >= columns, and it raises ValueError only when no
\* factor up to 3.0 does.
C12_Original ==
    /\ pc = "return" =>
           \E t \in ScaleTenths :
               /\ ret.pallet = ExactlyScaled(t)
               /\ ScaleSucceeds(t)
               /\ \A u \in 10..(t - 1) : ~ScaleSucceeds(u)
    /\ pc = "raise" => \A t \in ScaleTenths : ~ScaleSucceeds(t)

-----------------------------------------------------------------------------
(* Specification of auto_optimize_box_count *)

\* boxes with an empty range of counts, with one or two counts, and with
\* counts that only the flexible or only the column-wise search can place
AutoBoxes ==
    {Box(w * UnitsPerInch, l * UnitsPerInch) :
        <<w, l>> \in {<<41, 47>>, <<40, 48>>, <<30, 35>>, <<24, 40>>, <<20, 24>>,
                      <<17, 23>>, <<16, 20>>, <<13, 18>>, <<10, 20>>, <<9, 19>>,
                      <<12, 12>>, <<2, 48>>}}

InitAuto ==
    /\ pc = "call_auto_optimize_box_count"
    /\ args \in [box : AutoBoxes]
    /\ ret = NoResult
    /\ LocalsIdle

\* the statements before the loop
AutoStart ==
    /\ pc = "call_auto_optimize_box_count"
    /\ optimize' = [NoOptimize EXCEPT !.box_count = min_boxes(args.box)]
    /\ pc' = "sweep"
    /\ UNCHANGED <<args, ret, find_locals, scale_factor, placements, self>>

\* one pass of the loop
AutoSweep ==
    /\ pc = "sweep"
    /\ optimize.box_count <= max_boxes(args.box)
    /\ optimize' =
           SweepPass(optimize,
                     find_best_arrangement_with_custom_pallet(
                         args.box, optimize.box_count, sweep_pallet),
                     try_flexible_arrangement(args.box, optimize.box_count,
                                              sweep_pallet, DefaultMaxGridSize),
                     args.box)
    /\ UNCHANGED <<pc, args, ret, find_locals, scale_factor, placements, self>>

\* "return best_arrangement, best_rows, best_columns, best_count, best_pallet"
AutoReturn ==
    /\ pc = "sweep"
    /\ optimize.box_count > max_boxes(args.box)
    /\ optimize.best_arrangement.ok
    /\ ret' = OptimizeResult(optimize)
    /\ pc' = "return"
    /\ UNCHANGED <<args, locals>>

\* "if best_arrangement is None: raise ValueError(...)"
AutoRaise ==
    /\ pc = "sweep"
    /\ optimize.box_count > max_boxes(args.box)
    /\ ~optimize.best_arrangement.ok
    /\ pc' = "raise"
    /\ UNCHANGED <<args, ret, locals>>

NextAuto ==
    \/ AutoStart
    \/ AutoSweep
    \/ AutoReturn
    \/ AutoRaise

SpecAuto == InitAuto /\ [][NextAuto]_vars

\* C13: every result of auto_optimize_box_count carries the standard pallet
\* and fits it, and no scaling routine runs during the sweep: the variables
\* of fine scaling and of factor scaling stay as they were.
C13_AutoOptimizeKeepsStandardPallet ==
    /\ scaling = NoScaling
    /\ scale_factor = FloatOne
    /\ optimize.best_pallet = StandardPallet
    /\ pc = "return" =>
           /\ ret.pallet = StandardPallet
           /\ GridWidth(ret.grid, args.box) <= PALLET_WIDTH
           /\ \A c \in 1..Len(ret.grid[1]) :
                  ColumnHeight(ret.grid, args.box, c) <= PALLET_LENGTH

\* a result came back although the last counts of the sweep did not fit the
\* standard pallet
C13_Witness ==
    /\ pc = "return"
    /\ optimize.report = "FAILED"
    /\ ret.count > 0
    /\ ret.pallet = StandardPallet

\* the counts of the sweep
SweepRange == min_boxes(args.box)..max_boxes(args.box)

\* the arrangement the sweep's two searches give for a count on the standard
\* pallet, None when both fail
SweepChoice(count) ==
    best_for_this_count(
        find_best_arrangement_with_custom_pallet(args.box, count, StandardPallet),
        try_flexible_arrangement(args.box, count, StandardPallet,
                                 DefaultMaxGridSize),
        args.box)

\* C14: auto_optimize_box_count raises ValueError exactly when no count of
\* [max(1, tmax div 4), min(2 * tmax, 100)] has an arrangement on the standard
\* pallet, and otherwise returns a count of that range.
C14_Original ==
    /\ pc \in {"return", "raise"} =>
           ((pc = "raise") <=> (\A count \in SweepRange : ~SweepChoice(count).ok))
    /\ pc = "return" => ret.count \in SweepRange

\* the score of the arrangement chosen for a count
ChoiceScore(choice, count) ==
    sweep_score(calculate_arrangement_area(choice.grid, args.box), count)

\* the returned count scores no worse than the count, and is the smaller of
\* the two when they score the same
ReturnedBeats(returned_score, choice, count) ==
    choice.ok =>
        /\ FracLeq(returned_score, ChoiceScore(choice, count))
        /\ FracEq(returned_score, ChoiceScore(choice, count)) => ret.count <= count

\* C15: auto_optimize_box_count returns the count of least score
\* (1 - area_efficiency) * 1000 - count among the counts that have an
\* arrangement, the smallest such count on ties, with the grid chosen for
\* that count.
C15_Original ==
    pc = "return" =>
        /\ ret.count \in SweepRange
        /\ ret.grid = SweepChoice(ret.count).grid
        /\ \A count \in SweepRange :
               ReturnedBeats(sweep_score(calculate_arrangement_area(ret.grid, args.box),
                                         ret.count),
                             SweepChoice(count), count)

\* find_best_arrangement would find an arrangement on the standard pallet:
\* the flexible strategy, the smart patterns or a column-wise shape succeeds
StandardFit(box, count) ==
    \/ try_flexible_arrangement(box, count, StandardPallet, DefaultMaxGridSize).ok
    \/ try_smart_patterns(box, count, StandardPallet).ok
    \/ find_best_arrangement_with_custom_pallet(box, count, StandardPallet).ok

\* C16: the sweep treats a count as feasible (reports SUCCESS for it) exactly
\* when find_best_arrangement would find an arrangement for that count on the
\* standard pallet.
C16_Original ==
    (pc = "sweep" /\ optimize.report # "none") =>
        ((optimize.report = "SUCCESS")
            <=> StandardFit(args.box, optimize.box_count - 1))

-----------------------------------------------------------------------------
(* Specification of running calls: find_best_arrangement or
   auto_optimize_box_count is called and the interpreter keeps executing
   the next statement until the call returns or raises *)

\* boxes whose sweep returns and boxes whose sweep raises
RunningAutoBoxes ==
    {Box(w * UnitsPerInch, l * UnitsPerInch) :
        <<w, l>> \in {<<41, 47>>, <<30, 35>>, <<20, 24>>, <<13, 18>>}}

InitRunning ==
    \/ Init
    \/ /\ pc = "call_auto_optimize_box_count"
       /\ args \in [box : RunningAutoBoxes]
       /\ ret = NoResult
       /\ LocalsIdle

NextRunning ==
    \/ Candidates
    \/ TryFlexible
    \/ TrySmart
    \/ CompareRaise
    \/ Compare
    \/ TryTraditional
    \/ ReturnStandard
    \/ StartScaling
    \/ ScaleStep
    \/ ScaleReturn
    \/ ScaleRaise
    \/ AutoStart
    \/ AutoSweep
    \/ AutoReturn
    \/ AutoRaise

\* the statements that start a loop, return or raise
ControlSteps ==
    \/ CompareRaise
    \/ ReturnStandard
    \/ StartScaling
    \/ ScaleReturn
    \/ ScaleRaise
    \/ AutoStart
    \/ AutoReturn
    \/ AutoRaise

\* the statements that store the result of a called search function
SearchSteps ==
    \/ Candidates
    \/ TryFlexible
    \/ TrySmart
    \/ Compare
    \/ TryTraditional
    \/ ScaleStep
    \/ AutoSweep

\* ENABLED <<SearchSteps>>_vars, written out from the guards of its
\* actions, each of which changes pc or its loop variable
SearchStepsEnabled ==
    \/ pc = "call_find_best_arrangement"
    \/ pc = "flexible"
    \/ pc = "smart"
    \/ pc = "compare" /\ ~CompareDividesByZero
    \/ pc = "traditional" /\ next_candidate <= Len(candidates)
    \/ pc = "scaling" /\ WithinCap(scaling.width_increment)
    \/ pc = "sweep" /\ optimize.box_count <= max_boxes(args.box)

\* weak fairness of SearchSteps, by the definition of WF
SearchFairness ==
    \/ []<>(~SearchStepsEnabled)
    \/ []<><<SearchSteps>>_vars

\* a single thread runs the call: a statement that can be executed is executed
SpecRunning ==
    /\ InitRunning
    /\ [][NextRunning]_vars
    /\ WF_vars(ControlSteps)
    /\ SearchFairness

\* a call within the claim's range: any auto_optimize_box_count call, and
\* find_best_arrangement with at least one box
ValidCall ==
    \/ pc = "call_auto_optimize_box_count"
    \/ pc = "call_find_best_arrangement" /\ args.box_count >= 1

\* every loop counter stays within its fixed cap: the candidates of the
\* count, max_additional_size / increment + 1 values of either increment
\* (129 in the Python code) and the counts 1..100 of the sweep
LoopsWithinCaps ==
    /\ next_candidate <= Len(candidates) + 1
    /\ scaling.width_increment \in 0..(max_additional_size + increment)
    /\ scaling.length_increment \in 0..max_additional_size
    /\ pc = "sweep" => /\ optimize.box_count >= 1
                       /\ optimize.box_count <= max_boxes(args.box) + 1
                       /\ max_boxes(args.box) <= 100

\* C30: every call of find_best_arrangement with count >= 1 eventually
\* returns a result or raises the terminal ValueError, and every call of
\* auto_optimize_box_count eventually returns or raises; the loop counters
\* stay within their fixed caps all along.
C30_CallsTerminate ==
    /\ []LoopsWithinCaps
    /\ ValidCall ~> (pc \in {"return", "raise"})

\* fine scaling ran through all its steps and the call ended with ValueError
C30_Witness ==
    /\ pc = "raise"
    /\ scaling.width_increment > max_additional_size
    /\ args.box_count >= 1

-----------------------------------------------------------------------------
(* Specification of two calls of auto_optimize_box_count, one after the
   other, on the standard pallet *)

\* the boxes (b1, b2) of the first and of the second call
PairCalls ==
    {<<Box(p[1] * UnitsPerInch, p[2] * UnitsPerInch),
       Box(p[3] * UnitsPerInch, p[4] * UnitsPerInch)>> :
        p \in {<<20, 45, 13, 18>>, <<20, 24, 2, 48>>, <<11, 44, 14, 41>>,
               <<14, 41, 11, 44>>, <<10, 20, 2, 48>>, <<13, 18, 10, 20>>,
               <<30, 35, 20, 24>>}}

\* args.box is the box of the running call, args.other the box of the other
\* call, args.first the result of the first call once it has returned
InitAutoPair ==
    /\ pc = "call_auto_optimize_box_count"
    /\ \E p \in PairCalls :
          args = [box |-> p[1], call |-> 1, other |-> p[2], first |-> NoResult]
    /\ ret = NoResult
    /\ LocalsIdle

\* the first call has returned; auto_optimize_box_count is called again with
\* the second box
AutoSecondCall ==
    /\ pc = "return"
    /\ args.call = 1
    /\ args' = [box |-> args.other, call |-> 2, other |-> args.box,
                first |-> ret]
    /\ ret' = NoResult
    /\ optimize' = NoOptimize
    /\ pc' = "call_auto_optimize_box_count"
    /\ UNCHANGED <<find_locals, scale_factor, placements, self>>

NextAutoPair ==
    \/ AutoStart
    \/ AutoSweep
    \/ AutoReturn
    \/ AutoRaise
    \/ AutoSecondCall

SpecAutoPair == InitAutoPair /\ [][NextAutoPair]_vars

\* floor(pallet_area / area(b)) on the standard pallet
TheoreticalMaximum(b) == (PALLET_WIDTH * PALLET_LENGTH) \div (b.width * b.length)

\* both calls have returned a result: b1 = args.other, b2 = args.box
BothSucceeded == pc = "return" /\ args.call = 2

\* C25 as stated: for two boxes b1 and b2 for which auto_optimize_box_count
\* succeeds, if floor(pallet_area / area(b2)) >= floor(pallet_area / area(b1))
\* then the best count returned for b2 is >= the best count returned for b1.
C25_Original ==
    (BothSucceeded
     /\ TheoreticalMaximum(args.box) >= TheoreticalMaximum(args.other)) =>
        ret.count >= args.first.count

\* C25 as amended: for two boxes b1 and b2 for which auto_optimize_box_count
\* succeeds, if the first count of b2's sweep,
\* max(1, floor(pallet_area / area(b2)) div 4), is greater than or equal to
\* floor(pallet_area / area(b1)), then the best count returned for b2 is
\* >= the best count returned for b1.
C25_CountsOrderedWhenSweepsAreApart ==
    (BothSucceeded
     /\ Max2(1, TheoreticalMaximum(args.box) \div 4)
            >= TheoreticalMaximum(args.other)) =>
        ret.count >= args.first.count

\* b1 = 20 x 24 (theoretical maximum 4) returned 4 boxes, then b2 = 2 x 48
\* (theoretical maximum 20, sweep from 5) returned 7
C25_Witness ==
    /\ BothSucceeded
    /\ args.other = Box(20 * UnitsPerInch, 24 * UnitsPerInch)
    /\ args.box = Box(2 * UnitsPerInch, 48 * UnitsPerInch)
    /\ args.first.count = 4
    /\ ret.count = 7

-----------------------------------------------------------------------------
(* Specification of create_spatial_arrangement *)

SpatialBoxes ==
    {Box(w * UnitsPerInch, l * UnitsPerInch) :
        <<w, l>> \in {<<10, 20>>, <<13, 18>>, <<20, 24>>, <<30, 35>>, <<12, 12>>,
                      <<41, 50>>}}

InitSpatial ==
    /\ pc = "call_create_spatial_arrangement"
    /\ args \in [box : SpatialBoxes, box_count : 1..MaxSpatialCount,
                 pallet : {StandardPallet}]
    /\ ret = NoResult
    /\ LocalsIdle

\* one pass of "for i in range(box_count)" that places a box
PlaceBox ==
    /\ pc = "call_create_spatial_arrangement"
    /\ Len(placements) < args.box_count
    /\ BestTrial(NormalTrial(placements, args.box, args.pallet),
                 RotatedTrial(placements, args.box, args.pallet)).fits
    /\ placements' =
           Append(placements,
                  BestTrial(NormalTrial(placements, args.box, args.pallet),
                            RotatedTrial(placements, args.box, args.pallet)).placement)
    /\ UNCHANGED <<pc, args, ret, find_locals, scale_factor, optimize, self>>

\* "return placements", after the last pass or after "break"
SpatialReturn ==
    /\ pc = "call_create_spatial_arrangement"
    /\ \/ Len(placements) >= args.box_count
       \/ ~BestTrial(NormalTrial(placements, args.box, args.pallet),
                     RotatedTrial(placements, args.box, args.pallet)).fits
    /\ ret' = [placements |-> placements]
    /\ pc' = "return"
    /\ UNCHANGED <<args, locals>>

NextSpatial ==
    \/ PlaceBox
    \/ SpatialReturn

SpecSpatial == InitSpatial /\ [][NextSpatial]_vars

\* two placed boxes share interior points
BoxesOverlap(a, b) ==
    /\ Max2(a.x, b.x) < Min2(a.x + a.width, b.x + b.width)
    /\ Max2(a.y, b.y) < Min2(a.y + a.length, b.y + b.length)

\* C17: after any number of placements by the spatial fill no two boxes
\* overlap and every box lies within the pallet.
C17_Original ==
    /\ \A i \in 1..Len(placements) : \A j \in 1..Len(placements) :
           i < j => ~BoxesOverlap(placements[i], placements[j])
    /\ \A i \in 1..Len(placements) :
           /\ placements[i].x >= 0
           /\ placements[i].y >= 0
           /\ placements[i].x + placements[i].width <= args.pallet.width
           /\ placements[i].y + placements[i].length <= args.pallet.length

-----------------------------------------------------------------------------
(* Specification of find_best_arrangement_fine_scaling, called on its own *)

\* calls whose boxes fit the standard pallet, fit an enlarged one only, or
\* fit none
FineInputs ==
    [box : {Box(10 * UnitsPerInch, 20 * UnitsPerInch),
            Box(13 * UnitsPerInch, 18 * UnitsPerInch)},
     box_count : 1..MaxFindCount]
    \cup {[box |-> Box(3 * UnitsPerInch, 3 * UnitsPerInch), box_count |-> 97],
          [box |-> Box(2 * UnitsPerInch, 10 * UnitsPerInch), box_count |-> 97],
          [box |-> Box(2 * UnitsPerInch, 11 * UnitsPerInch), box_count |-> 97],
          [box |-> Box(2 * UnitsPerInch, 12 * UnitsPerInch), box_count |-> 96],
          [box |-> Box(2 * UnitsPerInch, 12 * UnitsPerInch), box_count |-> 97]}

InitFine ==
    /\ pc = "scaling"
    /\ args \in FineInputs
    /\ ret = NoResult
    /\ LocalsIdle

NextFine ==
    \/ ScaleStep
    \/ ScaleReturn
    \/ ScaleRaise

SpecFine == InitFine /\ [][NextFine]_vars

\* the pairs of increments the sweep visits
SweepIncrements ==
    (0..(max_additional_size \div increment))
        \X (0..(max_additional_size \div increment))

SweepPallet(p) == test_pallet(p[1] * increment, p[2] * increment)

\* smart patterns or the column-wise search find an arrangement on the pallet
FitsSweepPallet(pallet) == ScalingAttempt(args.box, args.box_count, pallet).ok

\* C11: find_best_arrangement_fine_scaling returns the standard pallet at
\* once when the increments (0, 0) give an arrangement; otherwise it returns
\* a pallet of smallest area among the enlarged pallets that give one, and it
\* raises ValueError when none does.
C11_FineScalingReturnsSmallestPallet ==
    /\ pc = "return" =>
           IF FitsSweepPallet(StandardPallet)
           THEN /\ ret.pallet = StandardPallet
                /\ scaling.width_increment = 0
                /\ scaling.length_increment = 0
           ELSE /\ \E p \in SweepIncrements : ret.pallet = SweepPallet(p)
                /\ FitsSweepPallet(ret.pallet)
                /\ \A p \in SweepIncrements :
                       PalletArea(SweepPallet(p)) < PalletArea(ret.pallet)
                           => ~FitsSweepPallet(SweepPallet(p))
    /\ pc = "raise" => \A p \in SweepIncrements : ~FitsSweepPallet(SweepPallet(p))

\* the whole sweep ran and the smallest of several fitting pallets came back
C11_Witness ==
    /\ pc = "return"
    /\ ~WithinCap(scaling.width_increment)
    /\ ret.pallet # StandardPallet
    /\ FitsSweepPallet(test_pallet(max_additional_size, max_additional_size))

-----------------------------------------------------------------------------
(* Specification of try_flexible_arrangement *)

FlexibleBoxes ==
    {Box(p[1] * UnitsPerInch, p[2] * UnitsPerInch) :
        p \in {<<6, 40>>, <<5, 24>>, <<10, 20>>, <<13, 18>>, <<30, 35>>}}

InitFlexible ==
    /\ pc = "call_try_flexible_arrangement"
    /\ args \in [box : FlexibleBoxes, box_count : 1..MaxFlexibleCount]
    /\ ret = << >>
    /\ LocalsIdle

\* try_flexible_arrangement(box, box_count, Pallet()) with the default
\* max_grid_size; tried holds the grids printed as "Trying grid"
TryFlexibleArrangement ==
    /\ pc = "call_try_flexible_arrangement"
    /\ ret' = [tried |-> FlexibleShapes(args.box_count, DefaultMaxGridSize),
               arrangement |->
                   try_flexible_arrangement(args.box, args.box_count,
                                            StandardPallet, DefaultMaxGridSize)]
    /\ pc' = "return_try_flexible_arrangement"
    /\ UNCHANGED <<args, locals>>

NextFlexible == TryFlexibleArrangement

SpecFlexible == InitFlexible /\ [][NextFlexible]_vars

\* C28 as stated: try_flexible_arrangement called with the default maximum
\* grid size (8, 8) attempts placement on every grid shape rows x columns
\* with 1 <= rows <= 8, 1 <= columns <= 8 and rows * columns >= count, so
\* the 8 x 8 cap is the largest shape actually tried.
C28_Original ==
    pc = "return_try_flexible_arrangement" =>
        /\ ret.tried = {rc \in (1..DefaultMaxGridSize[1])
                                   \X (1..DefaultMaxGridSize[2]) :
                            rc[1] * rc[2] >= args.box_count}
        /\ DefaultMaxGridSize \in ret.tried

-----------------------------------------------------------------------------
(* Specification of Box: models/box.py and Box-Packer-main/models/box.py *)

\* the dimensions a caller passes to Box(width, length)
BoxDims == {d * UnitsPerInch : d \in {-5, 0, 5, 8, 10, 20, 41}}

\* the functions of the search core that are handed the Box
CoreOperations == {"calculate_arrangement_area",
                   "find_best_arrangement_with_custom_pallet",
                   "try_flexible_arrangement", "try_smart_patterns"}

CoreCall(operation, b, box_count) ==
    CASE operation = "calculate_arrangement_area" ->
            calculate_arrangement_area(EmptyGrid(1, box_count), b)
      [] operation = "find_best_arrangement_with_custom_pallet" ->
            find_best_arrangement_with_custom_pallet(b, box_count,
                                                     StandardPallet)
      [] operation = "try_flexible_arrangement" ->
            try_flexible_arrangement(b, box_count, StandardPallet,
                                     DefaultMaxGridSize)
      [] operation = "try_smart_patterns" ->
            try_smart_patterns(b, box_count, StandardPallet)

InitBox ==
    /\ pc = "call_Box"
    /\ args \in [width : BoxDims, length : BoxDims]
    /\ ret = << >>
    /\ LocalsIdle

\* models/box.py: Box.__init__ has no test of the sign of the dimensions
BoxInit ==
    /\ pc = "call_Box"
    /\ self' = Box(args.width, args.length)
    /\ pc' = "Box"
    /\ UNCHANGED <<args, ret, find_locals, scale_factor, optimize, placements>>

\* Box-Packer-main/models/box.py: Box.__init__ raises ValueError
\* "if width <= 0 or length <= 0"
BoxInit_BoxPackerMain ==
    /\ pc = "call_Box"
    /\ IF args.width =< 0 \/ args.length =< 0
       THEN /\ pc' = "ValueError"
            /\ UNCHANGED self
       ELSE /\ self' = Box(args.width, args.length)
            /\ pc' = "Box"
    /\ UNCHANGED <<args, ret, find_locals, scale_factor, optimize, placements>>

\* a function of the search core is called with the Box that get_user_input
\* made from dimensions it found positive; it reads box.width, box.length
\* and box.area and assigns to no attribute of the Box
UseBox ==
    /\ pc = "Box"
    /\ self.width > 0
    /\ \E operation \in CoreOperations, box_count \in 1..2 :
          ret' = [operation |-> operation, box_count |-> box_count,
                  result |-> CoreCall(operation, self, box_count)]
    /\ pc' = "core"
    /\ UNCHANGED <<args, find_locals, other_locals>>

NextBox ==
    \/ BoxInit
    \/ BoxInit_BoxPackerMain
    \/ UseBox

SpecBox == InitBox /\ [][NextBox]_vars

\* C22: a Box constructed from two positive dimensions (a, b) has
\* width = min(a, b) and length = max(a, b), hence width <= length, and it
\* still has them after a function of the search core has used it.
C22_BoxKeepsShorterSideAsWidth ==
    (pc \in {"Box", "core"} /\ args.width > 0 /\ args.length > 0) =>
        /\ self.width = Min2(args.width, args.length)
        /\ self.length = Max2(args.width, args.length)
        /\ self.width =< self.length

\* Box(20, 10) was swapped to 10 x 20 and try_smart_patterns has used it
C22_Witness ==
    /\ pc = "core"
    /\ args.width = 20 * UnitsPerInch
    /\ args.length = 10 * UnitsPerInch
    /\ self = [width |-> 10 * UnitsPerInch, length |-> 20 * UnitsPerInch]
    /\ ret.operation = "try_smart_patterns"
    /\ ret.result.ok

\* C23 as stated: constructing a Box with a zero or negative width or length
\* raises ValueError and yields no Box object.
C23_Original ==
    (pc # "call_Box" /\ (args.width =< 0 \/ args.length =< 0)) =>
        /\ pc = "ValueError"
        /\ self = NoBox

====
